---------------------------- MODULE Spec2Model ----------------------------
(***************************************************************************)
(* The HTTP test scripts of BroLab-Store, each as a sequential process     *)
(* talking to the system under test.  The system under test is the         *)
(* environment: every request is answered by any response (or network      *)
(* failure) of a bounded set.  A run starts by choosing the script; each   *)
(* action is one step of that script's test function.                      *)
(*                                                                         *)
(*   script  the test function that is running                             *)
(*   pc      the step it is about to execute ("done": the function left)   *)
(*   loc     its local variables that a later step reads                   *)
(*   resp    the response object most recently bound                       *)
(*   raised  the exception propagating out of the function ("none")        *)
(*   log     every request sent so far with the status that answered it    *)
(*   modernRequests  whether the installed requests raises its own         *)
(*           JSONDecodeError (a RequestException) from Response.json()     *)
(***************************************************************************)
EXTENDS Integers, Sequences, FiniteSets, TLC

VARIABLES script, pc, loc, resp, raised, log, modernRequests

vars == <<script, pc, loc, resp, raised, log, modernRequests>>

---------------------------------------------------------------------------
(* Python values.  A JSON object is a record whose absent keys hold        *)
(* Missing and whose null values hold Null; text that is searched is a     *)
(* sequence of characters.                                                 *)

Missing == "<missing>"
Null == "<null>"

\* dict.get(key): None for an absent key.
Get(v) == IF v = Missing THEN Null ELSE v

\* Truth value of a string-or-None value.
Truthy(v) == v \notin {Missing, Null, ""}

\* isinstance(e, cls) for the exception classes the scripts raise and catch.
IsInstance(e, cls) ==
    CASE cls = "Exception" -> e # "Failed"
      [] cls = "RequestException" ->
            \/ e \in {"ConnectionError", "Timeout", "HTTPError"}
            \/ (e = "JSONDecodeError" /\ modernRequests)
      [] cls = "ValueError" -> e = "JSONDecodeError"
      [] OTHER -> e = cls

\* try: <raises e> except cls: pass  -- the exception that leaves the block.
Swallow(e, cls) == IF e # "none" /\ IsInstance(e, cls) THEN "none" ELSE e

\* A finally block that drops the pending exception when it ends normally.
AfterFinally_clears(pending, e) == e

\* A finally block that ended with exception e (or "none") while `pending`
\* was propagating: its own exception replaces the pending one.
AfterFinally(pending, e) == IF e # "none" THEN e ELSE pending

\* Text: str.lower(), `needle in hay`, str.startswith(prefix).
UpperChars == <<"A", "B", "C", "D", "E", "F", "G", "H", "I", "J", "K", "L", "M",
                "N", "O", "P", "Q", "R", "S", "T", "U", "V", "W", "X", "Y", "Z">>
LowerChars == <<"a", "b", "c", "d", "e", "f", "g", "h", "i", "j", "k", "l", "m",
                "n", "o", "p", "q", "r", "s", "t", "u", "v", "w", "x", "y", "z">>
lower_char(c) ==
    IF \E i \in 1..Len(UpperChars) : UpperChars[i] = c
    THEN LowerChars[CHOOSE i \in 1..Len(UpperChars) : UpperChars[i] = c]
    ELSE c
lower(t) == [i \in 1..Len(t) |-> lower_char(t[i])]
contains(needle, hay) ==
    \E i \in 0..(Len(hay) - Len(needle)) : SubSeq(hay, i + 1, i + Len(needle)) = needle
startswith(t, prefix) == Len(t) >= Len(prefix) /\ SubSeq(t, 1, Len(prefix)) = prefix

\* A JSON value read as text: a string, null, another type, or an absent key.
Str(t) == [type |-> "str", text |-> t]
Absent == [type |-> "missing", text |-> <<>>]
NullText == [type |-> "null", text |-> <<>>]
NumberText == [type |-> "number", text |-> <<>>]

\* Control flow of a step.
At(s, p) == script = s /\ pc = p
Frame == UNCHANGED <<script, modernRequests>>
Recv(r, entry) == resp' = r /\ log' = Append(log, entry)
\* A step whose exception is dropped and that is followed by `ok` all the same.
Goto_quiet(e, ok, bad) == raised' = "none" /\ pc' = ok

\* A step after which `ok` follows whether it raised or not.
Goto_on(e, ok, bad) == raised' = e /\ pc' = ok

\* A step that raised e leaves the try body for `bad`; otherwise `ok` follows.
Goto(e, ok, bad) == raised' = e /\ pc' = IF e = "none" THEN ok ELSE bad

---------------------------------------------------------------------------
(* What the system under test may answer.                                  *)

Statuses == {200, 201, 204, 400, 401, 403, 404, 500}
NetworkErrors == {"ConnectionError", "Timeout"}
Ids == {"id1", "id2"}
IdValues == Ids \cup {Missing, Null, ""}

NotJson == [json |-> FALSE, kind |-> "none"]
JsonList == [json |-> TRUE, kind |-> "list"]
NoResp == [exc |-> "none", status |-> 0, body |-> NotJson]

NetFail(e) == [exc |-> e, status |-> 0, body |-> NotJson]
Answer(s, b) == [exc |-> "none", status |-> s, body |-> b]
Answers(S, B) == {NetFail(e) : e \in NetworkErrors} \cup {Answer(s, b) : s \in S, b \in B}

\* response.raise_for_status()
raise_for_status(r) == IF r.status >= 400 THEN "HTTPError" ELSE "none"

\* A request as the log keeps it, with the status that answered it (0: none).
Sent(method, path, id, auth, payload, r) ==
    [method |-> method, path |-> path, id |-> id, auth |-> auth,
     payload |-> payload, status |-> r.status, exc |-> r.exc]

\* The cleanup calls: answered without a body.
CleanupAnswers == Answers({204, 500}, {NotJson})

---------------------------------------------------------------------------
(* testsprite_tests/TC001_create_order_with_idempotency_support.py         *)

OrderBodies == {NotJson, JsonList} \cup
               {[json |-> TRUE, kind |-> "object", id |-> i, orderId |-> o]
                   : i \in IdValues, o \in {Missing, "id2"}}
OrderAnswers == Answers({200, 201, 400, 500}, OrderBodies)

\* "id" in data and data["id"]
HasTruthyId(b) == b.kind = "object" /\ b.id # Missing /\ Truthy(b.id)

\* data.get("id"): AttributeError on a list.
GetIdExc(b) == IF b.kind = "object" THEN "none" ELSE "AttributeError"
GetId(b) == IF b.kind = "object" THEN Get(b.id) ELSE Null

\* Lines 36-44: the first POST and its assertions.
idem_first(r) ==
    IF r.exc # "none" THEN r.exc
    ELSE IF r.status # 201 THEN "AssertionError"
    ELSE IF ~r.body.json THEN "JSONDecodeError"
    ELSE IF ~HasTruthyId(r.body) THEN "AssertionError"
    ELSE "none"

\* data1 is bound once response1.json() has returned.
idem_data1_bound(r) == r.exc = "none" /\ r.status = 201 /\ r.body.json

\* idem_second without the comparison of the two ids.
idem_second_any_id(r, data1) ==
    IF r.exc # "none" THEN r.exc
    ELSE IF r.status # 201 THEN "AssertionError"
    ELSE IF ~r.body.json THEN "JSONDecodeError"
    ELSE GetIdExc(r.body)

\* Lines 47-55: the second POST and its assertions.
idem_second(r, data1) ==
    IF r.exc # "none" THEN r.exc
    ELSE IF r.status # 201 THEN "AssertionError"
    ELSE IF ~r.body.json THEN "JSONDecodeError"
    ELSE IF GetIdExc(r.body) # "none" THEN GetIdExc(r.body)
    ELSE IF GetId(r.body) # GetId(data1) THEN "AssertionError"
    ELSE "none"

\* Lines 59-64: order_id as the finally block computes it.
idem_cleanup_id ==
    IF ~loc.data1_bound THEN Null
    ELSE IF Swallow(GetIdExc(loc.data1), "Exception") # "none" THEN Null
    ELSE GetId(loc.data1)

\* uuid.uuid4() of line 15: the Idempotency-Key both POSTs carry.
IdempotencyKeys == {"key1", "key2"}

test_create_order_with_idempotency_support ==
    \/ /\ At("test_create_order_with_idempotency_support", "post1")
       /\ \E r \in OrderAnswers :
             /\ Recv(r, Sent("POST", "/api/orders", Null, "valid", loc.key, r))
             /\ loc' = [loc EXCEPT !.response1 = r, !.data1 = r.body,
                                   !.data1_bound = idem_data1_bound(r)]
             /\ Goto(idem_first(r), "post2", "finally")
       /\ Frame
    \/ /\ At("test_create_order_with_idempotency_support", "post2")
       /\ \E r \in OrderAnswers :
             /\ Recv(r, Sent("POST", "/api/orders", Null, "valid", loc.key, r))
             /\ Goto(idem_second(r, loc.data1), "finally", "finally")
       /\ UNCHANGED loc
       /\ Frame
    \/ /\ At("test_create_order_with_idempotency_support", "finally")
       /\ IF Truthy(idem_cleanup_id)
          THEN \E d \in CleanupAnswers :
                  /\ log' = Append(log, Sent("DELETE", "/api/orders/{id}", idem_cleanup_id, "valid", "none", d))
                  /\ raised' = AfterFinally(raised, Swallow(d.exc, "Exception"))
          ELSE /\ raised' = AfterFinally(raised, "none")
               /\ UNCHANGED log
       /\ pc' = "done"
       /\ UNCHANGED <<loc, resp>>
       /\ Frame

---------------------------------------------------------------------------
(* testsprite_tests/TC003_get_order_by_id_authorization_and_existence.py   *)

non_existent_order_id == "00000000-0000-0000-0000-000000000000"

\* Lines 33-42: the order is created; order_id is bound at line 41.
getorder_create(r) ==
    IF r.exc # "none" THEN r.exc
    ELSE IF r.status # 201 THEN "AssertionError"
    ELSE IF ~r.body.json THEN "JSONDecodeError"
    ELSE IF GetIdExc(r.body) # "none" THEN GetIdExc(r.body)
    ELSE IF ~Truthy(GetId(r.body)) THEN "AssertionError"
    ELSE "none"

getorder_order_id(r) ==
    IF r.exc = "none" /\ r.status = 201 /\ r.body.json /\ GetIdExc(r.body) = "none"
    THEN GetId(r.body) ELSE Null

\* Lines 45-52: the owner reads the order.
getorder_owner(r, order_id) ==
    IF r.exc # "none" THEN r.exc
    ELSE IF r.status # 200 THEN "AssertionError"
    ELSE IF ~r.body.json THEN "JSONDecodeError"
    ELSE IF GetIdExc(r.body) # "none" THEN GetIdExc(r.body)
    ELSE IF GetId(r.body) # order_id THEN "AssertionError"
    ELSE "none"

\* expect_status accepting any 4xx answer.
expect_any_4xx(r, code) ==
    IF r.exc # "none" THEN r.exc
    ELSE IF r.status < 400 \/ r.status >= 500 THEN "AssertionError"
    ELSE "none"

\* requests.<method>(...) followed by  assert response.status_code == code.
expect_status(r, code) ==
    IF r.exc # "none" THEN r.exc
    ELSE IF r.status # code THEN "AssertionError"
    ELSE "none"

StatusAnswers == Answers(Statuses, {NotJson})

test_get_order_by_id_authorization_and_existence ==
    \/ /\ At("test_get_order_by_id_authorization_and_existence", "create")
       /\ \E r \in OrderAnswers :
             /\ Recv(r, Sent("POST", "/api/orders", Null, "valid", "order", r))
             /\ loc' = [loc EXCEPT !.order_id = getorder_order_id(r)]
             /\ Goto(getorder_create(r), "get", "finally")
       /\ Frame
    \/ /\ At("test_get_order_by_id_authorization_and_existence", "get")
       /\ \E r \in Answers({200, 403, 404}, OrderBodies) :
             /\ Recv(r, Sent("GET", "/api/orders/{id}", loc.order_id, "valid", "none", r))
             /\ loc' = [loc EXCEPT !.resp_json = r.body]
             /\ Goto(getorder_owner(r, loc.order_id), "get_forbidden", "finally")
       /\ Frame
    \/ /\ At("test_get_order_by_id_authorization_and_existence", "get_forbidden")
       /\ \E r \in StatusAnswers :
             /\ Recv(r, Sent("GET", "/api/orders/{id}", loc.order_id, "forbidden", "none", r))
             /\ Goto(expect_status(r, 403), "get_404", "finally")
       /\ UNCHANGED loc
       /\ Frame
    \/ /\ At("test_get_order_by_id_authorization_and_existence", "get_404")
       /\ \E r \in StatusAnswers :
             /\ Recv(r, Sent("GET", "/api/orders/{id}", non_existent_order_id, "valid", "none", r))
             /\ Goto(expect_status(r, 404), "finally", "finally")
       /\ UNCHANGED loc
       /\ Frame
    \/ /\ At("test_get_order_by_id_authorization_and_existence", "finally")
       /\ IF Truthy(loc.order_id)
          THEN \E d \in CleanupAnswers :
                  /\ log' = Append(log, Sent("DELETE", "/api/orders/{id}", loc.order_id, "valid", "none", d))
                  /\ raised' = AfterFinally(raised, Swallow(d.exc, "Exception"))
          ELSE /\ raised' = AfterFinally(raised, "none")
               /\ UNCHANGED log
       /\ pc' = "done"
       /\ UNCHANGED <<loc, resp>>
       /\ Frame

---------------------------------------------------------------------------
(* testsprite_tests/TC010_handle_payment_webhook_signature_validation.py   *)

\* webhook_expect with  except requests.RequestException: pass
webhook_expect_pass(r, code) ==
    IF r.exc # "none" THEN Swallow(r.exc, "RequestException")
    ELSE IF r.status # code THEN "AssertionError"
    ELSE "none"

\* try: requests.post(...); assert status == code
\* except requests.RequestException: assert False
webhook_expect(r, code) ==
    IF r.exc # "none"
    THEN (IF IsInstance(r.exc, "RequestException") THEN "AssertionError" ELSE r.exc)
    ELSE IF r.status # code THEN "AssertionError"
    ELSE "none"

test_handle_payment_webhook_signature_validation ==
    \/ /\ At("test_handle_payment_webhook_signature_validation", "valid")
       /\ \E r \in StatusAnswers :
             /\ Recv(r, Sent("POST", "/api/payments/webhook", Null,
                             "v1=valid_signature_example", "valid_payload", r))
             /\ Goto(webhook_expect(r, 200), "invalid", "done")
       /\ UNCHANGED loc
       /\ Frame
    \/ /\ At("test_handle_payment_webhook_signature_validation", "invalid")
       /\ \E r \in StatusAnswers :
             /\ Recv(r, Sent("POST", "/api/payments/webhook", Null,
                             "v1=invalid_signature_example", "valid_payload", r))
             /\ Goto(webhook_expect(r, 400), "done", "done")
       /\ UNCHANGED loc
       /\ Frame

---------------------------------------------------------------------------
(* testsprite_tests/TC006_create_reservation_with_valid_and_invalid_data.py *)

create_reservation_payload ==
    [serviceType |-> "recording_session", preferredDuration |-> 60, hasBudget |-> TRUE]
create_invalid_reservation_payload ==
    [serviceType |-> "recording_session", preferredDuration |-> -30, hasBudget |-> FALSE]

ReservationBodies ==
    {NotJson, JsonList} \cup
    {[json |-> TRUE, kind |-> "object", id |-> i, reservationId |-> j]
        : i \in {Missing, Null, "id1"}, j \in {Missing, "id2"}}

\* reservation_valid without the assertion of line 61.
reservation_valid_no_id(r) ==
    IF r.exc # "none" THEN r.exc
    ELSE IF r.status # 201 THEN "AssertionError"
    ELSE IF ~r.body.json THEN "JSONDecodeError"
    ELSE IF r.body.kind # "object" THEN "AttributeError"
    ELSE "none"

\* Lines 53-63: the valid reservation.
reservation_valid(r) ==
    IF r.exc # "none" THEN r.exc
    ELSE IF r.status # 201 THEN "AssertionError"
    ELSE IF ~r.body.json THEN "JSONDecodeError"
    ELSE IF r.body.kind # "object" THEN "AssertionError"
    ELSE IF r.body.id = Missing /\ r.body.reservationId = Missing THEN "AssertionError"
    ELSE "none"

test_create_reservation_with_valid_and_invalid_data ==
    \/ /\ At("test_create_reservation_with_valid_and_invalid_data", "valid")
       /\ \E r \in Answers({200, 201, 400, 401}, ReservationBodies) :
             /\ Recv(r, Sent("POST", "/api/reservations", Null, "valid", create_reservation_payload, r))
             /\ loc' = [loc EXCEPT !.json_response = r.body]
             /\ Goto(reservation_valid(r), "invalid", "finally")
       /\ Frame
    \/ /\ At("test_create_reservation_with_valid_and_invalid_data", "invalid")
       /\ \E r \in StatusAnswers :
             /\ Recv(r, Sent("POST", "/api/reservations", Null, "valid", create_invalid_reservation_payload, r))
             /\ Goto(expect_status(r, 400), "no_auth", "finally")
       /\ UNCHANGED loc
       /\ Frame
    \/ /\ At("test_create_reservation_with_valid_and_invalid_data", "no_auth")
       /\ \E r \in StatusAnswers :
             /\ Recv(r, Sent("POST", "/api/reservations", Null, "absent", create_reservation_payload, r))
             /\ Goto(expect_status(r, 401), "invalid_token", "finally")
       /\ UNCHANGED loc
       /\ Frame
    \/ /\ At("test_create_reservation_with_valid_and_invalid_data", "invalid_token")
       /\ \E r \in StatusAnswers :
             /\ Recv(r, Sent("POST", "/api/reservations", Null, "invalid", create_reservation_payload, r))
             /\ Goto(expect_status(r, 401), "finally", "finally")
       /\ UNCHANGED loc
       /\ Frame
    \/ /\ At("test_create_reservation_with_valid_and_invalid_data", "finally")
       /\ raised' = AfterFinally(raised, "none")
       /\ pc' = "done"
       /\ UNCHANGED <<loc, resp, log>>
       /\ Frame

---------------------------------------------------------------------------
(* testsprite_tests/TC007_update_reservation_status_authorized_user.py     *)

valid_statuses == <<"draft", "pending", "confirmed", "completed", "cancelled">>

\* valid_statuses without its last element.
status_loop_short == Len(valid_statuses) - 1

\* The number of iterations of the loop of line 49.
status_loop_len == Len(valid_statuses)

test_update_reservation_status_authorized_user ==
    \/ /\ At("test_update_reservation_status_authorized_user", "create")
       /\ \E r \in OrderAnswers :
             /\ Recv(r, Sent("POST", "/api/reservations", Null, "authorized", "reservation", r))
             /\ loc' = [loc EXCEPT !.reservation_id = getorder_order_id(r)]
             /\ Goto(getorder_create(r), "update", "finally")
       /\ Frame
    \/ /\ At("test_update_reservation_status_authorized_user", "update")
       /\ \E r \in StatusAnswers :
             /\ Recv(r, Sent("PATCH", "/api/reservations/{id}/status", loc.reservation_id,
                             "authorized", valid_statuses[loc.i], r))
             /\ raised' = expect_status(r, 200)
             /\ pc' = IF expect_status(r, 200) # "none" THEN "finally"
                      ELSE IF loc.i < status_loop_len THEN "update" ELSE "unauthorized"
             /\ loc' = [loc EXCEPT !.i = IF expect_status(r, 200) = "none" THEN @ + 1 ELSE @]
       /\ Frame
    \/ /\ At("test_update_reservation_status_authorized_user", "unauthorized")
       /\ \E r \in StatusAnswers :
             /\ Recv(r, Sent("PATCH", "/api/reservations/{id}/status", loc.reservation_id,
                             "unauthorized", "confirmed", r))
             /\ Goto(expect_status(r, 403), "finally", "finally")
       /\ UNCHANGED loc
       /\ Frame
    \/ /\ At("test_update_reservation_status_authorized_user", "finally")
       /\ IF Truthy(loc.reservation_id)
          THEN \E d \in CleanupAnswers :
                  /\ log' = Append(log, Sent("DELETE", "/api/reservations/{id}", loc.reservation_id, "authorized", "none", d))
                  /\ raised' = AfterFinally(raised, Swallow(d.exc, "Exception"))
          ELSE /\ raised' = AfterFinally(raised, "none")
               /\ UNCHANGED log
       /\ pc' = "done"
       /\ UNCHANGED <<loc, resp>>
       /\ Frame

---------------------------------------------------------------------------
(* testsprite_tests/TC004_get_order_invoice_url_availability.py            *)

UrlTexts == { <<"h", "t", "t", "p", ":", "/", "/", "x">>,
              <<"h", "t", "t", "p", "s", ":", "/", "/", "x">>,
              <<"H", "T", "T", "P", ":", "/", "/", "x">>,
              <<"f", "t", "p", ":", "/", "/", "x">>,
              <<"h", "t", "t">>,
              <<>> }
InvoiceBodies ==
    {NotJson, JsonList} \cup
    {[json |-> TRUE, kind |-> "object", url |-> u]
        : u \in {Absent, NullText, NumberText} \cup {Str(t) : t \in UrlTexts}}

\* except requests.exceptions.RequestException as e: assert False
invoice_except(e) ==
    IF e # "none" /\ IsInstance(e, "RequestException") THEN "AssertionError" ELSE e

\* Lines 34-36 and 48: create_order() and the assertion on what it returns.
create_order(r) ==
    IF r.exc # "none" THEN r.exc
    ELSE IF raise_for_status(r) # "none" THEN raise_for_status(r)
    ELSE IF ~r.body.json THEN "JSONDecodeError"
    ELSE IF r.body.kind # "object" THEN "AttributeError"
    ELSE IF (IF r.body.id # Missing THEN r.body.id ELSE Get(r.body.orderId)) = Null
         THEN "AssertionError"
    ELSE "none"

\* invoice_response on which every status other than 200 is let through.
invoice_response_no_else(r) ==
    IF r.exc # "none" THEN r.exc
    ELSE IF r.status # 200 THEN "none"
    ELSE IF ~r.body.json THEN "JSONDecodeError"
    ELSE IF r.body.kind # "object" THEN "AssertionError"
    ELSE IF r.body.url.type # "str" THEN "AssertionError"
    ELSE IF ~startswith(r.body.url.text, <<"h", "t", "t", "p">>) THEN "AssertionError"
    ELSE "none"

\* Lines 52-61: the invoice request and what is asserted of its response.
invoice_response(r) ==
    IF r.exc # "none" THEN r.exc
    ELSE IF r.status = 200
         THEN IF ~r.body.json THEN "JSONDecodeError"
              ELSE IF r.body.kind # "object" THEN "AssertionError"
              ELSE IF r.body.url.type # "str" THEN "AssertionError"
              ELSE IF ~startswith(r.body.url.text, <<"h", "t", "t", "p">>) THEN "AssertionError"
              ELSE "none"
    ELSE IF r.status # 404 THEN "AssertionError"
    ELSE "none"

test_get_order_invoice_url_availability ==
    \/ /\ At("test_get_order_invoice_url_availability", "create_order")
       /\ \E r \in OrderAnswers :
             /\ Recv(r, Sent("POST", "/api/orders", Null, "valid", "order", r))
             /\ loc' = [loc EXCEPT !.order_id =
                           IF create_order(r) = "none"
                           THEN (IF r.body.id # Missing THEN r.body.id ELSE Get(r.body.orderId))
                           ELSE Null]
             /\ Goto(invoice_except(create_order(r)), "invoice", "finally")
       /\ Frame
    \/ /\ At("test_get_order_invoice_url_availability", "invoice")
       /\ \E r \in Answers({200, 204, 403, 404, 500}, InvoiceBodies) :
             /\ Recv(r, Sent("GET", "/api/orders/{id}/invoice", loc.order_id, "valid", "none", r))
             /\ Goto(invoice_except(invoice_response(r)), "finally", "finally")
       /\ UNCHANGED loc
       /\ Frame
    \/ /\ At("test_get_order_invoice_url_availability", "finally")
       /\ raised' = AfterFinally(raised, "none")
       /\ pc' = "done"
       /\ UNCHANGED <<loc, resp, log>>
       /\ Frame

---------------------------------------------------------------------------
(* __tests__/testsprite/TC002_beats_store_filtering_and_search.py          *)

\* The longest beats list an answer holds.
MaxBeats == 2

\* A bpm or price that is absent or null.
NoNumber == -1

t_hip_hop == <<"h", "i", "p", "-", "h", "o", "p">>
t_electronic == <<"e", "l", "e", "c", "t", "r", "o", "n", "i", "c">>
t_summer == <<"s", "u", "m", "m", "e", "r">>
t_party == <<"p", "a", "r", "t", "y">>

NoFilter == [has |-> {}, genre |-> <<>>, minBPM |-> 0, maxBPM |-> 0,
             minPrice |-> 0, maxPrice |-> 0, search |-> <<>>]

\* Lines 23-30.
filter_tests ==
    << [NoFilter EXCEPT !.has = {"genre"}, !.genre = t_hip_hop],
       [NoFilter EXCEPT !.has = {"genre"}, !.genre = t_electronic],
       [NoFilter EXCEPT !.has = {"minBPM", "maxBPM"}, !.minBPM = 80, !.maxBPM = 120],
       [NoFilter EXCEPT !.has = {"minPrice", "maxPrice"}, !.minPrice = 10, !.maxPrice = 30],
       [NoFilter EXCEPT !.has = {"search"}, !.search = t_summer],
       [NoFilter EXCEPT !.has = {"genre", "minBPM", "maxBPM", "minPrice", "maxPrice", "search"},
                        !.genre = t_hip_hop, !.minBPM = 90, !.maxBPM = 110,
                        !.minPrice = 15, !.maxPrice = 40, !.search = t_party] >>

\* The beats the catalogue may return: one beat that matches five of the
\* filter sets, and the beats that differ from it in one field (or in title
\* and description).
BaseBeat ==
    [genre |-> Str(<<"H", "i", "p", "-", "H", "o", "p">>), bpm |-> 100, price |-> 20,
     title |-> Str(<<"S", "u", "m", "m", "e", "r", " ", "P", "a", "r", "t", "y">>),
     description |-> Absent]
Catalogue ==
    {BaseBeat}
    \cup {[BaseBeat EXCEPT !.genre = g]
        : g \in {Absent, NullText, Str(t_hip_hop), Str(<<"E", "l", "e", "c", "t", "r", "o", "n", "i", "c">>)}}
    \cup {[BaseBeat EXCEPT !.bpm = n] : n \in {NoNumber, 79, 80, 120, 121}}
    \cup {[BaseBeat EXCEPT !.price = n] : n \in {NoNumber, 9, 10, 30, 31}}
    \cup {[BaseBeat EXCEPT !.title = t] : t \in {NullText, Str(<<"S", "U", "M", "M", "E", "R">>)}}
    \cup {[BaseBeat EXCEPT !.title = Str(<<"I", "n", "t", "r", "o">>), !.description = d]
        : d \in {Absent, Str(<<"a", " ", "S", "u", "m", "m", "e", "r", " ", "P", "A", "R", "T", "Y">>)}}

SeqsUpTo(S, n) == UNION {[1..k -> S] : k \in 0..n}

\* The JSON of GET /api/beats: a bare list, or an object whose "beats" key is
\* absent, holds a list, or holds something else.
BeatsBody(kind, beatsKey, items) ==
    [json |-> TRUE, kind |-> kind, beatsKey |-> beatsKey, items |-> items]
BeatsBodies(lists) ==
    {NotJson, BeatsBody("object", "missing", <<>>), BeatsBody("object", "other", <<>>)}
    \cup {BeatsBody("list", "none", l) : l \in {m \in lists : Len(m) <= 1}}
    \cup {BeatsBody("object", "list", l) : l \in lists}
BeatsAnswers(lists) ==
    Answers({500}, {NotJson}) \cup {Answer(200, b) : b \in BeatsBodies(lists)}

\* beat.get(key, "").lower(): the text, or the exception.
text_or_default(v) == IF v.type = "str" THEN lower(v.text) ELSE <<>>
text_exc(v) == IF v.type \in {"null", "number"} THEN "AttributeError" ELSE "none"

\* number_in_range with each bound off by one.
loose_range(has, n, lo, hi) ==
    IF n = NoNumber /\ ("min" \in has \/ "max" \in has) THEN "AssertionError"
    ELSE IF "min" \in has /\ ~(n >= lo - 1) THEN "AssertionError"
    ELSE IF "max" \in has /\ ~(n <= hi + 1) THEN "AssertionError"
    ELSE "none"

\* Lines 65-72 (bpm) and 75-82 (price): has says which bounds are supplied.
number_in_range(has, n, lo, hi) ==
    IF n = NoNumber /\ ("min" \in has \/ "max" \in has) THEN "AssertionError"
    ELSE IF "min" \in has /\ ~(n >= lo) THEN "AssertionError"
    ELSE IF "max" \in has /\ ~(n <= hi) THEN "AssertionError"
    ELSE "none"

Bounds(f, lo, hi) == (IF lo \in f.has THEN {"min"} ELSE {}) \cup (IF hi \in f.has THEN {"max"} ELSE {})

\* Lines 58-90: the first exception one beat raises under the filters f.
beat_check(beat, f) ==
    IF "genre" \in f.has /\ text_exc(beat.genre) # "none" THEN text_exc(beat.genre)
    ELSE IF "genre" \in f.has /\ lower(f.genre) # text_or_default(beat.genre) THEN "AssertionError"
    ELSE IF number_in_range(Bounds(f, "minBPM", "maxBPM"), beat.bpm, f.minBPM, f.maxBPM) # "none"
         THEN "AssertionError"
    ELSE IF number_in_range(Bounds(f, "minPrice", "maxPrice"), beat.price, f.minPrice, f.maxPrice) # "none"
         THEN "AssertionError"
    ELSE IF "search" \in f.has /\ text_exc(beat.title) # "none" THEN text_exc(beat.title)
    ELSE IF "search" \in f.has /\ text_exc(beat.description) # "none" THEN text_exc(beat.description)
    ELSE IF "search" \in f.has
            /\ ~contains(lower(f.search), text_or_default(beat.title))
            /\ ~contains(lower(f.search), text_or_default(beat.description))
         THEN "AssertionError"
    ELSE "none"

\* Lines 43-90: what is asserted of the response to one filter set.
beats_check(r, f) ==
    IF r.status # 200 THEN "AssertionError"
    ELSE IF ~r.body.json THEN "Failed"
    ELSE IF r.body.kind # "object" THEN "AssertionError"
    ELSE IF r.body.beatsKey = "missing" THEN "AssertionError"
    ELSE IF r.body.beatsKey # "list" THEN "AssertionError"
    ELSE LET bad == {k \in 1..Len(r.body.items) : beat_check(r.body.items[k], f) # "none"}
         IN  IF bad = {} THEN "none"
             ELSE beat_check(r.body.items[CHOOSE k \in bad : \A j \in bad : k <= j], f)

test_beats_store_filtering_and_search ==
    \/ /\ At("test_beats_store_filtering_and_search", "get")
       /\ \E r \in BeatsAnswers(SeqsUpTo(Catalogue, MaxBeats)) :
             /\ Recv(r, Sent("GET", "/api/beats", Null, "valid", loc.i, r))
             \* except requests.RequestException: pytest.fail(...)
             /\ Goto(IF r.exc # "none" /\ IsInstance(r.exc, "RequestException") THEN "Failed" ELSE r.exc,
                     "check", "done")
       /\ UNCHANGED loc
       /\ Frame
    \/ /\ At("test_beats_store_filtering_and_search", "check")
       /\ \E e \in {beats_check(resp, filter_tests[loc.i])} :
             /\ raised' = e
             /\ pc' = IF e = "none" /\ loc.i < Len(filter_tests) THEN "get" ELSE "done"
             /\ loc' = [loc EXCEPT !.i = IF e = "none" THEN @ + 1 ELSE @]
       \* response and data are rebound before they are read again
       /\ resp' = NoResp
       /\ UNCHANGED log
       /\ Frame

---------------------------------------------------------------------------
(* __tests__/testsprite/TC008_favorites_wishlist_management.py             *)

\* The longest favorites or wishlist list an answer holds.
MaxEntries == 2

\* The beats of step 1 and the entries of the favorites and wishlist lists.
IdBeats == {[id |-> i] : i \in {"id1", Missing}}
Entries == {[id |-> i, beatId |-> b] : i \in Ids, b \in Ids} \cup {[id |-> Missing, beatId |-> "id1"]}
\* A list answered as an object instead: {} and {"beats": []}.
EmptyObject == BeatsBody("object", "missing", <<>>)
KeyedObject == BeatsBody("object", "list", <<>>)
ListAnswers ==
    Answers({500}, {NotJson})
    \cup {Answer(200, b) : b \in {NotJson, EmptyObject, KeyedObject}
                                   \cup {BeatsBody("list", "none", l) : l \in SeqsUpTo(Entries, MaxEntries)}}

\* `for f in favorites` with f.get(...): the keys of an object are strings.
iter_get_exc(b) == IF b = KeyedObject THEN "AttributeError" ELSE "none"

\* Lines 20-26: step 1, the beat to operate on.
fav_beats(r) ==
    IF r.exc # "none" THEN r.exc
    ELSE IF r.status # 200 THEN "AssertionError"
    ELSE IF ~r.body.json THEN "JSONDecodeError"
    ELSE IF r.body.kind # "list" \/ Len(r.body.items) = 0 THEN "AssertionError"
    ELSE IF ~Truthy(Get(r.body.items[1].id)) THEN "AssertionError"
    ELSE "none"

\* Lines 37-40 and 51-54: the list holds an entry of the beat.
list_has_beat(r, beat_id) ==
    IF r.exc # "none" THEN r.exc
    ELSE IF r.status # 200 THEN "AssertionError"
    ELSE IF ~r.body.json THEN "JSONDecodeError"
    ELSE IF iter_get_exc(r.body) # "none" THEN iter_get_exc(r.body)
    ELSE IF ~\E k \in 1..Len(r.body.items) : Get(r.body.items[k].beatId) = beat_id THEN "AssertionError"
    ELSE "none"

\* list_lacks_id looking at the first entry only.
first_lacks_id(r, id) ==
    IF r.exc # "none" THEN r.exc
    ELSE IF r.status # 200 THEN "AssertionError"
    ELSE IF ~r.body.json THEN "JSONDecodeError"
    ELSE IF iter_get_exc(r.body) # "none" THEN iter_get_exc(r.body)
    ELSE IF Len(r.body.items) > 0 /\ Get(r.body.items[1].id) = id THEN "AssertionError"
    ELSE "none"

\* Lines 67-70 and 77-80: no entry of the list has the deleted id.
list_lacks_id(r, id) ==
    IF r.exc # "none" THEN r.exc
    ELSE IF r.status # 200 THEN "AssertionError"
    ELSE IF ~r.body.json THEN "JSONDecodeError"
    ELSE IF iter_get_exc(r.body) # "none" THEN iter_get_exc(r.body)
    ELSE IF ~\A k \in 1..Len(r.body.items) : Get(r.body.items[k].id) # id THEN "AssertionError"
    ELSE "none"

\* Lines 57-60: the recently played beats are a list.
recent_is_list(r) ==
    IF r.exc # "none" THEN r.exc
    ELSE IF r.status # 200 THEN "AssertionError"
    ELSE IF ~r.body.json THEN "JSONDecodeError"
    ELSE IF r.body.kind # "list" THEN "AssertionError"
    ELSE "none"

\* Lines 63-64 and 73-74: assert status_code in (200, 204).
expect_deleted(r) ==
    IF r.exc # "none" THEN r.exc
    ELSE IF r.status \notin {200, 204} THEN "AssertionError"
    ELSE "none"

\* A finally block that deletes only what the body has not deleted yet.
fav_cleanup_remaining(d1, d2) ==
    /\ log' = log \o (IF /\ Truthy(loc.created_favorite_id)
                         /\ \A k \in 1..Len(log) : log[k].method # "DELETE" \/ log[k].path # "/api/favorites/{id}"
                      THEN <<Sent("DELETE", "/api/favorites/{id}", loc.created_favorite_id, "valid", "none", d1)>>
                      ELSE <<>>)
                  \o (IF /\ Truthy(loc.created_wishlist_id)
                         /\ \A k \in 1..Len(log) : log[k].method # "DELETE" \/ log[k].path # "/api/wishlist/{id}"
                      THEN <<Sent("DELETE", "/api/wishlist/{id}", loc.created_wishlist_id, "valid", "none", d2)>>
                      ELSE <<>>)
    /\ raised' = raised

\* A finally block that deletes the favorite and leaves the wishlist item.
fav_cleanup_favorite_only(d1, d2) ==
    /\ log' = log \o (IF Truthy(loc.created_favorite_id)
                      THEN <<Sent("DELETE", "/api/favorites/{id}", loc.created_favorite_id, "valid", "none", d1)>>
                      ELSE <<>>)
    /\ raised' = AfterFinally(raised,
                    IF Truthy(loc.created_favorite_id) THEN Swallow(d1.exc, "Exception") ELSE "none")

\* Lines 84-93: the two deletions of the finally block, each in its own
\* try/except Exception; d1 and d2 are what the deletions meet.
fav_cleanup(d1, d2) ==
    /\ log' = log \o (IF Truthy(loc.created_favorite_id)
                      THEN <<Sent("DELETE", "/api/favorites/{id}", loc.created_favorite_id, "valid", "none", d1)>>
                      ELSE <<>>)
                  \o (IF Truthy(loc.created_wishlist_id)
                      THEN <<Sent("DELETE", "/api/wishlist/{id}", loc.created_wishlist_id, "valid", "none", d2)>>
                      ELSE <<>>)
    /\ raised' = AfterFinally(
                    AfterFinally(raised,
                        IF Truthy(loc.created_favorite_id) THEN Swallow(d1.exc, "Exception") ELSE "none"),
                    IF Truthy(loc.created_wishlist_id) THEN Swallow(d2.exc, "Exception") ELSE "none")

test_favorites_wishlist_management ==
    \/ /\ At("test_favorites_wishlist_management", "beats")
       /\ \E r \in BeatsAnswers(SeqsUpTo(IdBeats, MaxEntries)) :
             /\ Recv(r, Sent("GET", "/api/beats", Null, "valid", "none", r))
             /\ loc' = [loc EXCEPT !.beat_id = IF fav_beats(r) = "none" THEN r.body.items[1].id ELSE Null]
             /\ Goto(fav_beats(r), "fav_add", "finally")
       /\ Frame
    \/ /\ At("test_favorites_wishlist_management", "fav_add")
       /\ \E r \in OrderAnswers :
             /\ Recv(r, Sent("POST", "/api/favorites", Null, "valid", loc.beat_id, r))
             /\ loc' = [loc EXCEPT !.created_favorite_id = getorder_order_id(r)]
             /\ Goto(getorder_create(r), "fav_list", "finally")
       /\ Frame
    \/ /\ At("test_favorites_wishlist_management", "fav_list")
       /\ \E r \in ListAnswers :
             /\ Recv(r, Sent("GET", "/api/favorites", Null, "valid", "none", r))
             /\ Goto(list_has_beat(r, loc.beat_id), "wish_add", "finally")
       /\ UNCHANGED loc
       /\ Frame
    \/ /\ At("test_favorites_wishlist_management", "wish_add")
       /\ \E r \in OrderAnswers :
             /\ Recv(r, Sent("POST", "/api/wishlist", Null, "valid", loc.beat_id, r))
             /\ loc' = [loc EXCEPT !.created_wishlist_id = getorder_order_id(r)]
             /\ Goto(getorder_create(r), "wish_list", "finally")
       /\ Frame
    \/ /\ At("test_favorites_wishlist_management", "wish_list")
       /\ \E r \in ListAnswers :
             /\ Recv(r, Sent("GET", "/api/wishlist", Null, "valid", "none", r))
             /\ Goto(list_has_beat(r, loc.beat_id), "recent", "finally")
       /\ UNCHANGED loc
       /\ Frame
    \/ /\ At("test_favorites_wishlist_management", "recent")
       /\ \E r \in Answers({200, 500}, {NotJson, JsonList, BeatsBody("object", "missing", <<>>)}) :
             /\ Recv(r, Sent("GET", "/api/recently-played", Null, "valid", "none", r))
             /\ Goto(recent_is_list(r), "fav_del", "finally")
       /\ UNCHANGED loc
       /\ Frame
    \/ /\ At("test_favorites_wishlist_management", "fav_del")
       /\ \E r \in Answers({200, 204, 404}, {NotJson}) :
             /\ Recv(r, Sent("DELETE", "/api/favorites/{id}", loc.created_favorite_id, "valid", "none", r))
             /\ Goto(expect_deleted(r), "fav_list_after", "finally")
       /\ UNCHANGED loc
       /\ Frame
    \/ /\ At("test_favorites_wishlist_management", "fav_list_after")
       /\ \E r \in ListAnswers :
             /\ Recv(r, Sent("GET", "/api/favorites", Null, "valid", "none", r))
             /\ Goto(list_lacks_id(r, loc.created_favorite_id), "wish_del", "finally")
       /\ UNCHANGED loc
       /\ Frame
    \/ /\ At("test_favorites_wishlist_management", "wish_del")
       /\ \E r \in Answers({200, 204, 404}, {NotJson}) :
             /\ Recv(r, Sent("DELETE", "/api/wishlist/{id}", loc.created_wishlist_id, "valid", "none", r))
             /\ Goto(expect_deleted(r), "wish_list_after", "finally")
       /\ UNCHANGED loc
       /\ Frame
    \/ /\ At("test_favorites_wishlist_management", "wish_list_after")
       /\ \E r \in ListAnswers :
             /\ Recv(r, Sent("GET", "/api/wishlist", Null, "valid", "none", r))
             /\ Goto(list_lacks_id(r, loc.created_wishlist_id), "finally", "finally")
       /\ UNCHANGED loc
       /\ Frame
    \/ /\ At("test_favorites_wishlist_management", "finally")
       /\ \E d1 \in (IF Truthy(loc.created_favorite_id) THEN CleanupAnswers ELSE {NoResp}),
             d2 \in (IF Truthy(loc.created_wishlist_id) THEN CleanupAnswers ELSE {NoResp}) :
             fav_cleanup(d1, d2)
       /\ pc' = "done"
       /\ UNCHANGED <<loc, resp>>
       /\ Frame

---------------------------------------------------------------------------
(* __tests__/testsprite/TC003_audio_player_waveform_playback_controls.py   *)

\* Positions are in tenths of a second and volumes in thousandths, so that
\* the tolerances of the script (1 s, 0.01) have values on both sides.
abs(n) == IF n < 0 THEN 0 - n ELSE n
\* dict.get(key, default) of a number; NoNumber stands for the absent key.
GetOr(v, default) == IF v = NoNumber THEN default ELSE v

NoState == [json |-> TRUE, kind |-> "object", playing |-> Missing, position |-> NoNumber, volume |-> NoNumber]
AudioBodies ==
    {NotJson} \cup
    {[json |-> TRUE, kind |-> "object", playing |-> pl, position |-> po, volume |-> vo]
        : pl \in {"true", "false", Missing}, po \in {NoNumber, 290, 291, 300, 310}, vo \in {NoNumber, 741, 750, 760}}
AudioAnswers == Answers({200, 500}, AudioBodies)
SigninBodies ==
    {NotJson} \cup
    {[json |-> TRUE, kind |-> "object", id_token |-> i, access_token |-> a]
        : i \in {Missing, "tok1"}, a \in {Missing, "", "tok2"}}
WaveformBodies ==
    {NotJson} \cup {[json |-> TRUE, kind |-> "object", waveformPoints |-> w] : w \in {Missing, "list", "str"}}

\* Lines 16-20: sign in; id_token or access_token.
audio_signin(r) ==
    IF r.exc # "none" THEN r.exc
    ELSE IF r.status # 200 THEN "AssertionError"
    ELSE IF ~r.body.json THEN "JSONDecodeError"
    ELSE IF ~(Truthy(Get(r.body.id_token)) \/ Truthy(Get(r.body.access_token))) THEN "AssertionError"
    ELSE "none"

\* Lines 27-30: the waveform points are a list.
audio_waveform(r) ==
    IF r.exc # "none" THEN r.exc
    ELSE IF r.status # 200 THEN "AssertionError"
    ELSE IF ~r.body.json THEN "JSONDecodeError"
    ELSE IF r.body.waveformPoints # "list" THEN "AssertionError"
    ELSE "none"

\* audio_key_ok with "at most" in place of "less than" in the tolerances of
\* position and saved volume.
audio_key_ok_loose(b, key, expected) ==
    CASE key = "playing" -> Get(b.playing) = "true"
      [] key = "volume" -> abs(GetOr(b.volume, 0) - expected.volume) < 10
      [] key = "volume_saved" -> abs(GetOr(b.volume, -1000) - expected.volume) <= 10
      [] key = "position" -> abs(GetOr(b.position, -10) - expected.position) <= 10

\* The assertions on one key of a player state: lines 35, 40, 45, 50-52
\* against the values sent, lines 64-66 against the state saved at line 49.
audio_key_ok(b, key, expected) ==
    CASE key = "playing" -> Get(b.playing) = "true"
      [] key = "volume" -> abs(GetOr(b.volume, 0) - expected.volume) < 10
      [] key = "volume_saved" -> abs(GetOr(b.volume, -1000) - expected.volume) < 10
      [] key = "position" -> abs(GetOr(b.position, -10) - expected.position) < 10

\* A 200 JSON answer whose state passes the assertions on `keys`.
audio_expect(r, keys, expected) ==
    IF r.exc # "none" THEN r.exc
    ELSE IF r.status # 200 THEN "AssertionError"
    ELSE IF ~r.body.json THEN "JSONDecodeError"
    ELSE IF \E k \in 1..Len(keys) : ~audio_key_ok(r.body, keys[k], expected) THEN "AssertionError"
    ELSE "none"

\* Lines 32, 37, 42: what the script sends.
audio_sent == [playing |-> "true", position |-> 300, volume |-> 750]
\* saved_state.get("position", 0), saved_state.get("volume", 0) of lines 65-66.
audio_saved(b) == [playing |-> b.playing, position |-> GetOr(b.position, 0), volume |-> GetOr(b.volume, 0)]

\* audio_stop with `except requests.RequestException` in place of line 71.
audio_stop_narrow(headers_bound, d) ==
    IF ~headers_bound THEN Swallow("UnboundLocalError", "RequestException")
    ELSE Swallow(d.exc, "RequestException")

\* Lines 69-72: the stop call; `headers` is unbound when sign-in failed.
audio_stop(headers_bound, d) ==
    IF ~headers_bound THEN Swallow("UnboundLocalError", "Exception")
    ELSE Swallow(d.exc, "Exception")

test_audio_player_waveform_playback_controls ==
    \/ /\ At("test_audio_player_waveform_playback_controls", "signin")
       /\ \E r \in Answers({200, 401}, SigninBodies) :
             /\ Recv(r, Sent("POST", "/api/auth/signin", Null, "none", "none", r))
             /\ loc' = [loc EXCEPT !.headers_bound = (audio_signin(r) = "none")]
             /\ Goto(audio_signin(r), "waveform", "finally")
       /\ Frame
    \/ /\ At("test_audio_player_waveform_playback_controls", "waveform")
       /\ \E r \in Answers({200, 404}, WaveformBodies) :
             /\ Recv(r, Sent("GET", "/api/audio-player/waveform", "sampleBeat1", "valid", "none", r))
             /\ Goto(audio_waveform(r), "play", "finally")
       /\ UNCHANGED loc
       /\ Frame
    \/ /\ At("test_audio_player_waveform_playback_controls", "play")
       /\ \E r \in AudioAnswers :
             /\ Recv(r, Sent("POST", "/api/audio-player/play", "sampleBeat1", "valid", "none", r))
             /\ Goto(audio_expect(r, <<"playing">>, audio_sent), "volume", "finally")
       /\ UNCHANGED loc
       /\ Frame
    \/ /\ At("test_audio_player_waveform_playback_controls", "volume")
       /\ \E r \in AudioAnswers :
             /\ Recv(r, Sent("POST", "/api/audio-player/volume", Null, "valid", "0.75", r))
             /\ Goto(audio_expect(r, <<"volume">>, audio_sent), "seek", "finally")
       /\ UNCHANGED loc
       /\ Frame
    \/ /\ At("test_audio_player_waveform_playback_controls", "seek")
       /\ \E r \in AudioAnswers :
             /\ Recv(r, Sent("POST", "/api/audio-player/seek", Null, "valid", "30", r))
             /\ Goto(audio_expect(r, <<"position">>, audio_sent), "state", "finally")
       /\ UNCHANGED loc
       /\ Frame
    \/ /\ At("test_audio_player_waveform_playback_controls", "state")
       /\ \E r \in AudioAnswers :
             /\ Recv(r, Sent("GET", "/api/audio-player/state", Null, "valid", "none", r))
             /\ loc' = [loc EXCEPT !.saved_state =
                           IF r.exc = "none" /\ r.status = 200 /\ r.body.json THEN r.body ELSE NoState]
             /\ Goto(audio_expect(r, <<"playing", "position", "volume_saved">>, audio_sent),
                     "nav", "finally")
       /\ Frame
    \/ /\ At("test_audio_player_waveform_playback_controls", "nav")
       /\ \E r \in Answers({200, 500}, {NotJson}) :
             /\ Recv(r, Sent("POST", "/api/navigation-state/simulateNavigation", Null, "valid", "/some/other/page", r))
             /\ Goto(expect_status(r, 200), "nav_back", "finally")
       /\ UNCHANGED loc
       /\ Frame
    \/ /\ At("test_audio_player_waveform_playback_controls", "nav_back")
       /\ \E r \in Answers({200, 500}, {NotJson}) :
             /\ Recv(r, Sent("POST", "/api/navigation-state/simulateNavigation", Null, "valid", "/audio-player", r))
             /\ Goto(expect_status(r, 200), "post_nav_state", "finally")
       /\ UNCHANGED loc
       /\ Frame
    \/ /\ At("test_audio_player_waveform_playback_controls", "post_nav_state")
       /\ \E r \in AudioAnswers :
             /\ Recv(r, Sent("GET", "/api/audio-player/state", Null, "valid", "none", r))
             /\ Goto(audio_expect(r, <<"playing", "position", "volume_saved">>, audio_saved(loc.saved_state)),
                     "finally", "finally")
       /\ UNCHANGED loc
       /\ Frame
    \/ /\ At("test_audio_player_waveform_playback_controls", "finally")
       /\ \E d \in CleanupAnswers :
             /\ log' = IF loc.headers_bound
                       THEN Append(log, Sent("POST", "/api/audio-player/stop", Null, "valid", "none", d))
                       ELSE log
             /\ raised' = AfterFinally(raised, audio_stop(loc.headers_bound, d))
       /\ pc' = "done"
       /\ UNCHANGED <<loc, resp>>
       /\ Frame

---------------------------------------------------------------------------
(* __tests__/testsprite/TC007_service_booking_system_functionality.py      *)

\* Lines 35-93: the four bookings, each with the key of the payload that the
\* answer is asserted to echo.
bookings ==
    <<[serviceType |-> "mixing", key |-> "artistName", value |-> "Test Artist"],
      [serviceType |-> "mastering", key |-> "priority", value |-> "high"],
      [serviceType |-> "recording-session", key |-> "studioPreferred", value |-> "Studio A"],
      [serviceType |-> "custom-beat-request", key |-> "genre", value |-> "Hip Hop"]>>

\* What POST /api/services/book may answer to booking b: `echo` is the value
\* under b.key.
BookingAnswers(b) ==
    Answers({201, 500},
            {NotJson, JsonList} \cup
            {[json |-> TRUE, kind |-> "object", id |-> i, serviceType |-> t, echo |-> v]
                : i \in {"id1", "id2", Missing}, t \in {b.serviceType, "other", Missing},
                  v \in {b.value, Missing}})

\* Lines 18-23: raise_for_status(), then response.json().
create_service_booking(r) ==
    IF r.exc # "none" THEN r.exc
    ELSE IF raise_for_status(r) # "none" THEN raise_for_status(r)
    ELSE IF ~r.body.json THEN "JSONDecodeError"
    ELSE "none"

\* Lines 44-45: the id is appended before the other keys are looked at.
booking_appended(r) ==
    create_service_booking(r) = "none" /\ GetIdExc(r.body) = "none" /\ Truthy(GetId(r.body))

\* Lines 43-48 (and 59-63, 74-78, 89-93): one booking and its assertions.
booking_step(r, b) ==
    IF create_service_booking(r) # "none" THEN create_service_booking(r)
    ELSE IF GetIdExc(r.body) # "none" THEN GetIdExc(r.body)
    ELSE IF ~Truthy(GetId(r.body)) THEN "AssertionError"
    ELSE IF Get(r.body.serviceType) # b.serviceType THEN "AssertionError"
    ELSE IF Get(r.body.echo) # b.value THEN "AssertionError"
    ELSE "none"

\* A deletion that reports its failure as a RuntimeError.
delete_service_booking_wrapped(d) == IF d.exc # "none" \/ d.status >= 400 THEN "RuntimeError" ELSE "none"

\* Lines 25-29: raise_for_status() turns an error status into HTTPError.
delete_service_booking(d) == IF d.exc # "none" THEN d.exc ELSE raise_for_status(d)

test_service_booking_system_functionality ==
    \/ /\ At("test_service_booking_system_functionality", "book")
       /\ \E r \in BookingAnswers(bookings[loc.i]) :
             /\ log' = Append(log, Sent("POST", "/api/services/book", Null, "valid", bookings[loc.i].serviceType, r))
             /\ loc' = [loc EXCEPT
                           !.created_booking_ids = IF booking_appended(r) THEN Append(@, r.body.id) ELSE @,
                           !.i = IF booking_step(r, bookings[loc.i]) = "none" THEN @ + 1 ELSE @]
             /\ Goto(booking_step(r, bookings[loc.i]),
                     IF loc.i < Len(bookings) THEN "book" ELSE "finally", "finally")
       /\ resp' = NoResp
       /\ Frame
    \/ /\ At("test_service_booking_system_functionality", "finally")
       /\ loc.deleted < Len(loc.created_booking_ids)
       /\ \E d \in CleanupAnswers :
             /\ log' = Append(log, Sent("DELETE", "/api/services/book/{id}",
                                        loc.created_booking_ids[loc.deleted + 1], "valid", "none", d))
             /\ raised' = AfterFinally(raised, Swallow(delete_service_booking(d), "RequestException"))
             /\ pc' = IF Swallow(delete_service_booking(d), "RequestException") = "none"
                      THEN "finally" ELSE "done"
       /\ loc' = [loc EXCEPT !.deleted = @ + 1]
       /\ UNCHANGED resp
       /\ Frame
    \/ /\ At("test_service_booking_system_functionality", "finally")
       /\ loc.deleted = Len(loc.created_booking_ids)
       /\ pc' = "done"
       /\ UNCHANGED <<loc, resp, raised, log>>
       /\ Frame

---------------------------------------------------------------------------
(* testsprite_tests/TC005_shopping_cart_and_checkout_flow.py               *)

\* A JSON list that holds the string "id":  "id" in item  is true of it and
\* item["id"] raises TypeError.
IdList == [json |-> TRUE, kind |-> "list_of_id"]
CartItemBodies ==
    {NotJson, JsonList, IdList} \cup {[json |-> TRUE, kind |-> "object", id |-> i] : i \in {"id1", Null, Missing}}
QuantityBodies ==
    {NotJson, JsonList} \cup {[json |-> TRUE, kind |-> "object", quantity |-> q] : q \in {NoNumber, 2, 3}}
CheckoutBodies ==
    {NotJson, JsonList} \cup
    {[json |-> TRUE, kind |-> "object", checkoutUrl |-> u]
        : u \in {Absent, NullText, Str(<<"h", "t", "t", "p", ":", "/", "/", "x">>), Str(<<"f", "t", "p", ":", "/", "/", "x">>)}}
\* What POST /api/auth/login may answer: the keys that the scripts calling it
\* read (token, accessToken, access_token).
LoginBodies ==
    {NotJson, JsonList} \cup
    {[json |-> TRUE, kind |-> "object", token |-> t, accessToken |-> a, access_token |-> u]
        : t \in {"tok1", "", Missing}, a \in {"tokA", Missing}, u \in {"tokB", Missing}}
PaymentBodies ==
    {NotJson, JsonList} \cup {[json |-> TRUE, kind |-> "object", status |-> t] : t \in {"success", "failed", Missing}}

\* raise_for_status() and json() of a helper, before its assertion.
cart_json(r) ==
    IF r.exc # "none" THEN r.exc
    ELSE IF raise_for_status(r) # "none" THEN raise_for_status(r)
    ELSE IF ~r.body.json THEN "JSONDecodeError"
    ELSE "none"

\* except Exception as e: raise RuntimeError(...)
as_runtime_error(e) == IF e # "none" /\ IsInstance(e, "Exception") THEN "RuntimeError" ELSE e

\* Lines 13-26.
authenticate_clerk_user(r) ==
    as_runtime_error(
        IF cart_json(r) # "none" THEN cart_json(r)
        ELSE IF GetIdExc(r.body) # "none" THEN GetIdExc(r.body)
        ELSE IF ~Truthy(Get(r.body.token)) THEN "AssertionError"
        ELSE "none")

\* Lines 28-45.
create_cart_item(r) ==
    as_runtime_error(
        IF cart_json(r) # "none" THEN cart_json(r)
        ELSE IF r.body.kind = "list" THEN "AssertionError"
        ELSE IF r.body.kind = "object" /\ r.body.id = Missing THEN "AssertionError"
        ELSE "none")

\* item["id"] in the test function, outside the helpers.
cart_item_id_exc(item) == IF item.kind = "list_of_id" THEN "TypeError" ELSE "none"

\* Lines 47-61.
update_cart_item_quantity(r, quantity) ==
    as_runtime_error(
        IF cart_json(r) # "none" THEN cart_json(r)
        ELSE IF GetIdExc(r.body) # "none" THEN GetIdExc(r.body)
        ELSE IF r.body.quantity # quantity THEN "AssertionError"
        ELSE "none")

\* Lines 76-91, and the assertion on checkoutUrl that follows the call
\* (lines 103-104 and 121-122).
initiate_checkout(r) ==
    IF cart_json(r) # "none" THEN "RuntimeError"
    ELSE IF r.body.kind # "object" \/ r.body.checkoutUrl = Absent THEN "RuntimeError"
    ELSE IF r.body.checkoutUrl.type # "str" THEN "AttributeError"
    ELSE IF ~startswith(r.body.checkoutUrl.text, <<"h", "t", "t", "p">>) THEN "AssertionError"
    ELSE "none"

\* Lines 131-134: the payment call, outside the helpers.
cart_payment(r) ==
    IF cart_json(r) # "none" THEN cart_json(r)
    ELSE IF GetIdExc(r.body) # "none" THEN GetIdExc(r.body)
    ELSE IF Get(r.body.status) # "success" THEN "AssertionError"
    ELSE "none"

\* Lines 63-74: every failure of the deletion is printed, none raised.
delete_cart_item(d) ==
    Swallow(IF d.exc # "none" THEN d.exc
            ELSE IF d.status \notin {200, 204} THEN "RuntimeError"
            ELSE "none",
            "Exception")

\* Lines 106-108 and 136-138:  if item: delete_cart_item(item["id"]).
\* NotJson stands for the None the item starts as.
cart_finally(item, d) ==
    /\ log' = IF item # NotJson /\ cart_item_id_exc(item) = "none"
              THEN Append(log, Sent("DELETE", "/api/cart/items/{id}", item.id, "none", "none", d))
              ELSE log
    /\ raised' = AfterFinally(raised,
                    IF item = NotJson THEN "none"
                    ELSE IF cart_item_id_exc(item) # "none" THEN cart_item_id_exc(item)
                    ELSE delete_cart_item(d))

test_shopping_cart_and_checkout_flow ==
    \/ /\ At("test_shopping_cart_and_checkout_flow", "guest_create")
       /\ \E r \in Answers({201, 500}, CartItemBodies) :
             /\ log' = Append(log, Sent("POST", "/api/cart/items", Null, "none", "none", r))
             /\ loc' = [loc EXCEPT !.guest_cart_item = IF create_cart_item(r) = "none" THEN r.body ELSE @]
             /\ Goto(IF create_cart_item(r) # "none" THEN create_cart_item(r) ELSE cart_item_id_exc(r.body),
                     "guest_update", "guest_finally")
       /\ resp' = NoResp
       /\ Frame
    \/ /\ At("test_shopping_cart_and_checkout_flow", "guest_update")
       /\ \E r \in Answers({200, 404}, QuantityBodies) :
             /\ log' = Append(log, Sent("PUT", "/api/cart/items/{id}", loc.guest_cart_item.id, "none", "2", r))
             /\ Goto(update_cart_item_quantity(r, 2), "guest_checkout", "guest_finally")
       /\ resp' = NoResp
       /\ UNCHANGED loc
       /\ Frame
    \/ /\ At("test_shopping_cart_and_checkout_flow", "guest_checkout")
       /\ \E r \in Answers({200, 400}, CheckoutBodies) :
             /\ log' = Append(log, Sent("POST", "/api/checkout", loc.guest_cart_item.id, "none", "guestCartId", r))
             /\ Goto(initiate_checkout(r), "guest_finally", "guest_finally")
       /\ resp' = NoResp
       /\ UNCHANGED loc
       /\ Frame
    \/ /\ At("test_shopping_cart_and_checkout_flow", "guest_finally")
       /\ \E d \in CleanupAnswers : cart_finally(loc.guest_cart_item, d)
       /\ pc' = IF raised' = "none" THEN "authenticate" ELSE "done"
       /\ UNCHANGED <<loc, resp>>
       /\ Frame
    \/ /\ At("test_shopping_cart_and_checkout_flow", "authenticate")
       /\ \E r \in Answers({200, 401}, LoginBodies) :
             /\ Recv(r, Sent("POST", "/api/auth/login", Null, "none", "none", r))
             /\ loc' = [loc EXCEPT !.token = IF authenticate_clerk_user(r) = "none" THEN r.body.token ELSE @]
             /\ Goto(authenticate_clerk_user(r), "auth_create", "done")
       /\ Frame
    \/ /\ At("test_shopping_cart_and_checkout_flow", "auth_create")
       /\ \E r \in Answers({201, 500}, CartItemBodies) :
             /\ log' = Append(log, Sent("POST", "/api/cart/items", Null, loc.token, "none", r))
             /\ loc' = [loc EXCEPT !.auth_cart_item = IF create_cart_item(r) = "none" THEN r.body ELSE @]
             /\ Goto(IF create_cart_item(r) # "none" THEN create_cart_item(r) ELSE cart_item_id_exc(r.body),
                     "auth_update", "auth_finally")
       /\ resp' = NoResp
       /\ Frame
    \/ /\ At("test_shopping_cart_and_checkout_flow", "auth_update")
       /\ \E r \in Answers({200, 404}, QuantityBodies) :
             /\ log' = Append(log, Sent("PUT", "/api/cart/items/{id}", loc.auth_cart_item.id, loc.token, "3", r))
             /\ Goto(update_cart_item_quantity(r, 3), "auth_checkout", "auth_finally")
       /\ resp' = NoResp
       /\ UNCHANGED loc
       /\ Frame
    \/ /\ At("test_shopping_cart_and_checkout_flow", "auth_checkout")
       /\ \E r \in Answers({200, 400}, CheckoutBodies) :
             /\ log' = Append(log, Sent("POST", "/api/checkout", Null, loc.token, "none", r))
             /\ Goto(initiate_checkout(r), "payment", "auth_finally")
       /\ resp' = NoResp
       /\ UNCHANGED loc
       /\ Frame
    \/ /\ At("test_shopping_cart_and_checkout_flow", "payment")
       /\ \E r \in Answers({200, 402}, PaymentBodies) :
             /\ Recv(r, Sent("POST", "/api/payment/process", Null, loc.token, "clerk_billing_test", r))
             /\ Goto(cart_payment(r), "auth_finally", "auth_finally")
       /\ UNCHANGED loc
       /\ Frame
    \/ /\ At("test_shopping_cart_and_checkout_flow", "auth_finally")
       /\ \E d \in CleanupAnswers : cart_finally(loc.auth_cart_item, d)
       /\ pc' = "done"
       /\ UNCHANGED <<loc, resp>>
       /\ Frame

---------------------------------------------------------------------------
(* Scripts of one or two requests: TC002_get_current_user_orders_pagination, *)
(* TC005_get_available_reservation_services_public_access,                 *)
(* TC009_create_payment_session_with_required_fields and                   *)
(* TC008_log_download_with_authentication (testsprite_tests/).             *)

\* A handler that lets every exception through as it is.
except_as_never(e, cls, new) == e

\* except cls: assert False / raise new(...)  -- what leaves the handler.
except_as(e, cls, new) == IF e # "none" /\ IsInstance(e, cls) THEN new ELSE e

\* TC002 lines 17-35: `except Timeout` and `except RequestException` both
\* end in assert False.
test_get_current_user_orders_pagination ==
    /\ At("test_get_current_user_orders_pagination", "get")
    /\ \E r \in Answers({200, 401}, {NotJson, JsonList, EmptyObject}) :
          /\ Recv(r, Sent("GET", "/api/orders/me", Null, "valid", "none", r))
          /\ Goto(except_as(except_as(recent_is_list(r), "Timeout", "AssertionError"),
                            "RequestException", "AssertionError"),
                  "done", "done")
    /\ UNCHANGED loc
    /\ Frame

\* TC005 lines 9-21: the request in  except RequestException: assert False,
\* json() in  except ValueError: assert False.
test_get_available_reservation_services_public_access ==
    /\ At("test_get_available_reservation_services_public_access", "get")
    /\ \E r \in Answers({200, 500}, {NotJson, JsonList, EmptyObject}) :
          /\ Recv(r, Sent("GET", "/api/reservations/services", Null, "none", "none", r))
          /\ Goto(IF r.exc # "none" THEN except_as(r.exc, "RequestException", "AssertionError")
                  ELSE IF r.status # 200 THEN "AssertionError"
                  ELSE IF ~r.body.json THEN except_as("JSONDecodeError", "ValueError", "AssertionError")
                  ELSE IF r.body.kind # "list" THEN "AssertionError"
                  ELSE "none",
                  "done", "done")
    /\ UNCHANGED loc
    /\ Frame

\* TC009 lines 23-28: 200, "checkoutUrl" in data, a str that starts with http.
payment_session(r) ==
    IF r.exc # "none" THEN r.exc
    ELSE IF r.status # 200 THEN "AssertionError"
    ELSE IF ~r.body.json THEN "JSONDecodeError"
    ELSE IF r.body.kind # "object" \/ r.body.checkoutUrl = Absent THEN "AssertionError"
    ELSE IF r.body.checkoutUrl.type # "str" THEN "AssertionError"
    ELSE IF ~startswith(r.body.checkoutUrl.text, <<"h", "t", "t", "p">>) THEN "AssertionError"
    ELSE "none"

test_create_payment_session_with_required_fields ==
    /\ At("test_create_payment_session_with_required_fields", "post")
    /\ \E r \in Answers({200, 400}, CheckoutBodies) :
          /\ Recv(r, Sent("POST", "/api/payments/create-payment-session", "resv_123abc", "valid", "1500", r))
          /\ Goto(except_as(payment_session(r), "RequestException", "AssertionError"), "done", "done")
    /\ UNCHANGED loc
    /\ Frame

\* TC008 lines 17-35: the product to log, everything inside
\* except Exception: assert False.
download_setup(r) ==
    except_as(IF r.exc # "none" THEN r.exc
              ELSE IF r.status # 200 THEN "AssertionError"
              ELSE IF ~r.body.json THEN "JSONDecodeError"
              ELSE IF r.body.kind # "list" \/ Len(r.body.items) = 0 THEN "AssertionError"
              ELSE IF Get(r.body.items[1].id) = Null \/ Get(r.body.items[1].name) = Null THEN "AssertionError"
              ELSE "none",
              "Exception", "AssertionError")

\* TC008 lines 44-59: the POST is outside every try; json() is inside
\* except Exception: assert False.
download_log(r) ==
    IF r.exc # "none" THEN r.exc
    ELSE IF r.status # 200 THEN "AssertionError"
    ELSE IF ~r.body.json THEN except_as("JSONDecodeError", "Exception", "AssertionError")
    ELSE IF r.body.kind # "object" THEN "AssertionError"
    ELSE "none"

test_log_download_with_authentication ==
    \/ /\ At("test_log_download_with_authentication", "products")
       /\ \E r \in Answers({200, 500},
                          {NotJson, EmptyObject, BeatsBody("list", "none", <<>>)}
                          \cup {BeatsBody("list", "none", <<[id |-> i, name |-> n]>>)
                                   : i \in {"id1", Missing}, n \in {"Beat", Null}}) :
             /\ Recv(r, Sent("GET", "/api/woo/products", Null, "none", "none", r))
             /\ loc' = [loc EXCEPT !.product_id = IF download_setup(r) = "none" THEN r.body.items[1].id ELSE @]
             /\ Goto(download_setup(r), "log", "done")
       /\ Frame
    \/ /\ At("test_log_download_with_authentication", "log")
       /\ \E r \in Answers({200, 401}, {NotJson, JsonList, EmptyObject}) :
             /\ Recv(r, Sent("POST", "/api/downloads", loc.product_id, "valid", "standard", r))
             /\ Goto(download_log(r), "done", "done")
       /\ UNCHANGED loc
       /\ Frame

---------------------------------------------------------------------------
(* testsprite_tests/TC001_authentication_system_user_synchronization.py    *)

JsonNull == [json |-> TRUE, kind |-> "null"]

\* A script that looks for the key "token" in the login response.
auth_sync_step_token(step, r, user) ==
    IF r.exc # "none" THEN r.exc
    ELSE IF r.status # 200 THEN "AssertionError"
    ELSE IF ~r.body.json THEN "JSONDecodeError"
    ELSE CASE step = "login" ->
                 IF r.body.kind # "object" \/ r.body.token = Missing THEN "AssertionError" ELSE "none"
           [] step = "user" ->
                 IF r.body.kind # "object" \/ r.body.id = Missing \/ r.body.email = Missing
                 THEN "AssertionError" ELSE "none"
           [] step = "convex" ->
                 IF r.body.kind = "null" THEN "AssertionError"
                 ELSE IF r.body.kind # "object" THEN "AttributeError"
                 ELSE IF Get(r.body.clerkId) # user.id \/ Get(r.body.email) # user.email THEN "AssertionError"
                 ELSE "none"
           [] step = "check" ->
                 IF r.body.kind # "object" THEN "AttributeError"
                 ELSE IF Get(r.body.authenticated) # "true" \/ Get(r.body.userId) # user.id THEN "AssertionError"
                 ELSE "none"

\* Lines 17-58, one request and its assertions at a time; `user` holds
\* clerk_user_id and clerk_user_email once step 2 has passed.
auth_sync_step(step, r, user) ==
    IF r.exc # "none" THEN r.exc
    ELSE IF r.status # 200 THEN "AssertionError"
    ELSE IF ~r.body.json THEN "JSONDecodeError"
    ELSE CASE step = "login" ->
                 IF r.body.kind # "object" \/ r.body.accessToken = Missing THEN "AssertionError" ELSE "none"
           [] step = "user" ->
                 IF r.body.kind # "object" \/ r.body.id = Missing \/ r.body.email = Missing
                 THEN "AssertionError" ELSE "none"
           [] step = "convex" ->
                 IF r.body.kind = "null" THEN "AssertionError"
                 ELSE IF r.body.kind # "object" THEN "AttributeError"
                 ELSE IF Get(r.body.clerkId) # user.id \/ Get(r.body.email) # user.email THEN "AssertionError"
                 ELSE "none"
           [] step = "check" ->
                 IF r.body.kind # "object" THEN "AttributeError"
                 ELSE IF Get(r.body.authenticated) # "true" \/ Get(r.body.userId) # user.id THEN "AssertionError"
                 ELSE "none"

test_authentication_system_user_synchronization ==
    \/ /\ At("test_authentication_system_user_synchronization", "login")
       /\ \E r \in Answers({200, 401}, LoginBodies) :
             /\ Recv(r, Sent("POST", "/api/auth/login", Null, "none", "none", r))
             /\ Goto(except_as(auth_sync_step("login", r, loc), "RequestException", "AssertionError"),
                     "user", "done")
       /\ UNCHANGED loc
       /\ Frame
    \/ /\ At("test_authentication_system_user_synchronization", "user")
       /\ \E r \in Answers({200, 401},
                          {NotJson, JsonList} \cup
                          {[json |-> TRUE, kind |-> "object", id |-> i, email |-> e]
                              : i \in {"id1", Missing}, e \in {"e1", Missing}}) :
             /\ Recv(r, Sent("GET", "/api/auth/user", Null, "valid", "none", r))
             /\ loc' = IF auth_sync_step("user", r, loc) = "none"
                       THEN [id |-> r.body.id, email |-> r.body.email] ELSE loc
             /\ Goto(except_as(auth_sync_step("user", r, loc), "RequestException", "AssertionError"),
                     "convex", "done")
       /\ Frame
    \/ /\ At("test_authentication_system_user_synchronization", "convex")
       /\ \E r \in Answers({200, 404},
                          {NotJson, JsonList, JsonNull} \cup
                          {[json |-> TRUE, kind |-> "object", clerkId |-> i, email |-> e]
                              : i \in {"id1", "id2", Missing}, e \in {"e1", "e2"}}) :
             /\ Recv(r, Sent("GET", "/api/convex/users/{id}", loc.id, "valid", "none", r))
             /\ Goto(except_as(auth_sync_step("convex", r, loc), "RequestException", "AssertionError"),
                     "check", "done")
       /\ UNCHANGED loc
       /\ Frame
    \/ /\ At("test_authentication_system_user_synchronization", "check")
       /\ \E r \in Answers({200, 401},
                          {NotJson, JsonList} \cup
                          {[json |-> TRUE, kind |-> "object", authenticated |-> a, userId |-> i]
                              : a \in {"true", "false", Missing}, i \in {"id1", "id2"}}) :
             /\ Recv(r, Sent("GET", "/api/auth/check", Null, "valid", "none", r))
             /\ Goto(except_as(auth_sync_step("check", r, loc), "RequestException", "AssertionError"),
                     "done", "done")
       /\ UNCHANGED loc
       /\ Frame

---------------------------------------------------------------------------
(* testsprite_tests/TC009_internationalization_multi_language_support.py   *)

languages == <<"en", "es", "fr", "de", "jp">>
currency_expected == [en |-> "USD", es |-> "EUR", fr |-> "EUR", de |-> "EUR", jp |-> "JPY"]

\* The try body of one step, before its handler: raise_for_status(), json()
\* and the assertions of lines 56-58, 73-77, 22-24, 95, 105, 114, 123-124.
i18n_step(step, r, lang) ==
    IF cart_json(r) # "none" THEN cart_json(r)
    ELSE CASE step = "locales" ->
                 IF r.body.kind # "object" \/ ~r.body.namespaces THEN "AssertionError" ELSE "none"
           [] step = "prefs" ->
                 IF r.body.kind # "object" \/ r.body.locale = Missing THEN "AssertionError" ELSE "none"
           [] OTHER ->
                 IF GetIdExc(r.body) # "none" THEN GetIdExc(r.body)
                 ELSE CASE step = "currency" ->
                              IF Get(r.body.currency) # currency_expected[lang] THEN "AssertionError" ELSE "none"
                        [] step = "login" ->
                              IF ~Truthy(Get(r.body.token)) THEN "AssertionError" ELSE "none"
                        [] step \in {"update", "prefs_again"} ->
                              IF Get(r.body.locale) # "fr" THEN "AssertionError" ELSE "none"
                        [] step = "account" ->
                              IF Get(r.body.currency) # "EUR" THEN "AssertionError" ELSE "none"

\* The request of each step after the two loops, and the step that follows.
i18n_requests ==
    [prefs |-> [method |-> "GET", path |-> "/api/user/preferences", next |-> "update"],
     update |-> [method |-> "PUT", path |-> "/api/user/preferences", next |-> "prefs_again"],
     prefs_again |-> [method |-> "GET", path |-> "/api/user/preferences", next |-> "account"],
     account |-> [method |-> "GET", path |-> "/api/user/account", next |-> "done"]]

test_internationalization_multilanguage_support ==
    \/ /\ At("test_internationalization_multilanguage_support", "locales")
       /\ \E r \in Answers({200, 404},
                          {NotJson, JsonList} \cup
                          {[json |-> TRUE, kind |-> "object", namespaces |-> n] : n \in BOOLEAN}) :
             /\ Recv(r, Sent("GET", "/api/i18n/locales/{lang}", languages[loc.i], "none", "none", r))
             /\ Goto(except_as(i18n_step("locales", r, languages[loc.i]), "Exception", "AssertionError"),
                     IF loc.i < Len(languages) THEN "locales" ELSE "currency", "done")
       /\ loc' = [loc EXCEPT !.i = IF @ < Len(languages) THEN @ + 1 ELSE 1]
       /\ Frame
    \/ /\ At("test_internationalization_multilanguage_support", "currency")
       /\ \E r \in Answers({200, 404},
                          {NotJson, JsonList} \cup
                          {[json |-> TRUE, kind |-> "object", currency |-> c]
                              : c \in {"USD", "EUR", "JPY", Missing}}) :
             /\ Recv(r, Sent("GET", "/api/i18n/currency", languages[loc.i], "none", "none", r))
             /\ Goto(except_as(i18n_step("currency", r, languages[loc.i]), "Exception", "AssertionError"),
                     IF loc.i < Len(languages) THEN "currency" ELSE "login", "done")
       /\ loc' = [loc EXCEPT !.i = IF @ < Len(languages) THEN @ + 1 ELSE 1]
       /\ Frame
    \/ /\ At("test_internationalization_multilanguage_support", "login")
       /\ \E r \in Answers({200, 401}, LoginBodies) :
             /\ Recv(r, Sent("POST", "/api/auth/login", Null, "none", "none", r))
             /\ Goto(except_as(i18n_step("login", r, "none"), "RequestException", "RuntimeError"),
                     "prefs", "done")
       /\ UNCHANGED loc
       /\ Frame
    \/ /\ script = "test_internationalization_multilanguage_support"
       /\ pc \in DOMAIN i18n_requests
       /\ \E r \in Answers({200, 500},
                          {NotJson, JsonList} \cup
                          {[json |-> TRUE, kind |-> "object", locale |-> l, currency |-> c]
                              : l \in {"fr", "en", Missing}, c \in {"EUR", "USD"}}) :
             /\ Recv(r, Sent(i18n_requests[pc].method, i18n_requests[pc].path, Null, "valid", "none", r))
             /\ Goto(except_as(i18n_step(pc, r, "none"), "Exception", "AssertionError"),
                     i18n_requests[pc].next, "done")
       /\ UNCHANGED loc
       /\ Frame

---------------------------------------------------------------------------
(* __tests__/testsprite/TC006_subscription_plans_and_billing_integration.py *)

SUBSCRIPTION_PLANS == <<"Basic", "Artist", "Ultimate">>

\* Plan ids are text:  plan_id in (inv.get("planId") or "")  is a substring test.
PlanIds == [p1 |-> <<"p", "1">>, p10 |-> <<"p", "1", "0">>, p2 |-> <<"p", "2">>, none |-> <<>>]
SubscriptionBodies ==
    [login |-> LoginBodies,
     plans |-> {NotJson, JsonList} \cup
               {[json |-> TRUE, kind |-> "object", plans |-> l]
                   : l \in {<<>>,
                            <<[name |-> "Basic", id |-> PlanIds.p1], [name |-> "Artist", id |-> PlanIds.p2],
                              [name |-> "Ultimate", id |-> PlanIds.p10]>>,
                            <<[name |-> "Basic", id |-> PlanIds.none], [name |-> "Artist", id |-> PlanIds.p2],
                              [name |-> "Ultimate", id |-> PlanIds.p10]>>,
                            <<[name |-> "Basic", id |-> PlanIds.p1], [name |-> "Artist", id |-> PlanIds.p2]>>,
                            <<[name |-> "Basic", id |-> PlanIds.p1], [name |-> Missing, id |-> PlanIds.p2]>>}},
     select |-> {NotJson, JsonList} \cup
                {[json |-> TRUE, kind |-> "object", success |-> v] : v \in {"true", "false", Missing}},
     status |-> {NotJson, JsonList} \cup
                {[json |-> TRUE, kind |-> "object", planId |-> i, active |-> a]
                    : i \in {PlanIds.p1, PlanIds.p2}, a \in {"true", "false"}},
     quota |-> {NotJson, JsonList} \cup
               {[json |-> TRUE, kind |-> "object", used |-> u, limit |-> l]
                   : u \in {NoNumber, 1, 2, 3}, l \in {NoNumber, 2}},
     billing |-> {NotJson, JsonList} \cup
                 {[json |-> TRUE, kind |-> "object", invoices |-> v]
                     : v \in {<<>>, <<PlanIds.none>>, <<PlanIds.p2>>, <<PlanIds.p2, PlanIds.p10>>, <<PlanIds.p1>>}}]

\* The request of each step and the step that follows it.
subscription_requests ==
    [login |-> [method |-> "POST", path |-> "/api/auth/login", next |-> "plans"],
     plans |-> [method |-> "GET", path |-> "/api/subscription/plans", next |-> "select"],
     select |-> [method |-> "POST", path |-> "/api/subscription/select", next |-> "status"],
     status |-> [method |-> "GET", path |-> "/api/subscription/status", next |-> "quota"],
     quota |-> [method |-> "GET", path |-> "/api/subscription/quota", next |-> "billing"],
     billing |-> [method |-> "GET", path |-> "/api/billing/history", next |-> "done"]]

\* Lines 72-111, one helper call and its assertions at a time; every
\* exception ends in the AssertionError of lines 113-114.
subscription_step(step, r, plan_id) ==
    except_as(
        IF cart_json(r) # "none" THEN cart_json(r)
        ELSE IF step # "billing" /\ GetIdExc(r.body) # "none" THEN GetIdExc(r.body)
        ELSE CASE step = "login" ->
                     IF ~(Truthy(Get(r.body.token)) \/ Truthy(Get(r.body.access_token)))
                     THEN "AssertionError" ELSE "none"
               [] step = "plans" ->
                     IF Len(r.body.plans) = 0 THEN "AssertionError"
                     ELSE IF \E k \in 1..Len(r.body.plans) : r.body.plans[k].name = Missing THEN "KeyError"
                     ELSE IF \E n \in 1..Len(SUBSCRIPTION_PLANS) :
                                \A k \in 1..Len(r.body.plans) : r.body.plans[k].name # SUBSCRIPTION_PLANS[n]
                          THEN "AssertionError"
                     ELSE IF r.body.plans[1].id = PlanIds.none THEN "AssertionError"
                     ELSE "none"
               [] step = "select" -> IF Get(r.body.success) # "true" THEN "AssertionError" ELSE "none"
               [] step = "status" ->
                     IF r.body.planId # plan_id \/ r.body.active # "true" THEN "AssertionError" ELSE "none"
               [] step = "quota" ->
                     IF r.body.used = NoNumber \/ r.body.limit = NoNumber \/ r.body.used > r.body.limit
                     THEN "AssertionError" ELSE "none"
               [] step = "billing" ->
                     IF r.body.kind # "object" THEN "AssertionError"
                     ELSE IF ~\E k \in 1..Len(r.body.invoices) : contains(plan_id, r.body.invoices[k])
                          THEN "AssertionError"
                     ELSE "none",
        "Exception", "AssertionError")

test_subscription_plans_and_billing_integration ==
    /\ script = "test_subscription_plans_and_billing_integration"
    /\ pc \in DOMAIN subscription_requests
    /\ \E r \in Answers({200, 500}, SubscriptionBodies[pc]) :
          /\ Recv(r, Sent(subscription_requests[pc].method, subscription_requests[pc].path, Null,
                          IF pc = "login" THEN "none" ELSE "valid", "none", r))
          /\ loc' = IF pc = "plans" /\ subscription_step(pc, r, loc.plan_id) = "none"
                    THEN [plan_id |-> r.body.plans[1].id] ELSE loc
          /\ Goto(subscription_step(pc, r, loc.plan_id), subscription_requests[pc].next, "done")
    /\ Frame

---------------------------------------------------------------------------
(* testsprite_tests/TC010_error_handling_and_monitoring.py                 *)

\* log_step that records nothing for a step that failed.
log_step_successes(results, step, success) ==
    IF success THEN Append(results, [step |-> step, result |-> "PASS"]) ELSE results

\* log_step that records PASS whatever happened.
log_step_pass(results, step, success) == Append(results, [step |-> step, result |-> "PASS"])

\* Lines 34-41: log_step appends one result.
log_step(results, step, success) ==
    Append(results, [step |-> step, result |-> IF success THEN "PASS" ELSE "FAIL"])

\* Lines 50-58, 61-78, 83-101, 105-114, 119-137: whether the try block of a
\* step logs success; every exception is caught and logged as a failure.
monitoring_success(step, r) ==
    /\ r.exc = "none"
    /\ CASE step = "unauthorized" -> r.status = 401
         [] step = "server_error" ->
               r.status >= 500 /\ r.body.json /\ r.body.kind = "object" /\ (r.body.error \/ r.body.message)
         [] step = "authentication" ->
               r.status = 200 /\ r.body.json /\ r.body.kind = "object" /\ Truthy(Get(r.body.token))
         [] step = "authorized" -> r.status = 200
         [] step = "notifications" ->
               /\ r.status = 200 /\ r.body.json /\ r.body.kind = "list"
               /\ \A k \in 1..Len(r.body.items) : r.body.items[k].keys = "all"

test_error_handling_and_monitoring_report ==
    \/ /\ At("test_error_handling_and_monitoring_report", "unauthorized")
       /\ \E r \in Answers({200, 401}, {NotJson}) :
             /\ Recv(r, Sent("GET", "/api/protected-resource", Null, "none", "none", r))
             /\ loc' = [loc EXCEPT !.results = log_step(@, "unauthorized", monitoring_success("unauthorized", r))]
       /\ pc' = "server_error"
       /\ UNCHANGED raised
       /\ Frame
    \/ /\ At("test_error_handling_and_monitoring_report", "server_error")
       /\ \E r \in Answers({200, 500},
                          {NotJson, JsonList} \cup
                          {[json |-> TRUE, kind |-> "object", error |-> e, message |-> m]
                              : e \in BOOLEAN, m \in BOOLEAN}) :
             /\ Recv(r, Sent("GET", "/api/error", Null, "none", "none", r))
             /\ loc' = [loc EXCEPT !.results = log_step(@, "server_error", monitoring_success("server_error", r))]
       /\ pc' = "authenticate"
       /\ UNCHANGED raised
       /\ Frame
    \/ /\ At("test_error_handling_and_monitoring_report", "authenticate")
       /\ \E r \in Answers({200, 401}, LoginBodies) :
             /\ Recv(r, Sent("POST", "/api/auth/login", Null, "none", "none", r))
             /\ loc' = [loc EXCEPT
                           !.results = log_step(@, "authentication", monitoring_success("authentication", r)),
                           !.token = IF monitoring_success("authentication", r) THEN r.body.token ELSE @]
       /\ pc' = "authorized"
       /\ UNCHANGED raised
       /\ Frame
    \/ /\ At("test_error_handling_and_monitoring_report", "authorized")
       /\ Truthy(loc.token)
       /\ \E r \in Answers({200, 403}, {NotJson}) :
             /\ Recv(r, Sent("GET", "/api/protected-resource", Null, loc.token, "none", r))
             /\ loc' = [loc EXCEPT !.results = log_step(@, "authorized", monitoring_success("authorized", r))]
       /\ pc' = "notifications"
       /\ UNCHANGED raised
       /\ Frame
    \/ /\ At("test_error_handling_and_monitoring_report", "authorized")
       /\ ~Truthy(loc.token)
       /\ loc' = [loc EXCEPT !.results = log_step(@, "skipped", FALSE)]
       /\ pc' = "notifications"
       /\ UNCHANGED <<raised, resp, log>>
       /\ Frame
    \/ /\ At("test_error_handling_and_monitoring_report", "notifications")
       /\ \E r \in Answers({200, 500},
                          {NotJson, EmptyObject} \cup
                          {BeatsBody("list", "none", l)
                              : l \in SeqsUpTo({[keys |-> "all"], [keys |-> "some"]}, 2)}) :
             /\ Recv(r, Sent("GET", "/api/notifications", Null, loc.token, "none", r))
             /\ loc' = [loc EXCEPT !.results = log_step(@, "notifications", monitoring_success("notifications", r))]
       /\ pc' = "md_report"
       /\ UNCHANGED raised
       /\ Frame
    \/ /\ At("test_error_handling_and_monitoring_report", "md_report")
       /\ loc' = [loc EXCEPT !.files = Append(@, [name |-> "test_tc010_report.md", steps |-> Len(loc.results)])]
       /\ pc' = "html_report"
       /\ UNCHANGED <<raised, resp, log>>
       /\ Frame
    \/ /\ At("test_error_handling_and_monitoring_report", "html_report")
       /\ loc' = [loc EXCEPT !.files = Append(@, [name |-> "test_tc010_report.html", steps |-> Len(loc.results)])]
       /\ pc' = "verdict"
       /\ UNCHANGED <<raised, resp, log>>
       /\ Frame
    \/ /\ At("test_error_handling_and_monitoring_report", "verdict")
       /\ raised' = IF \E k \in 1..Len(loc.results) : loc.results[k].result = "FAIL"
                    THEN "AssertionError" ELSE "none"
       /\ pc' = "done"
       /\ UNCHANGED <<loc, resp, log>>
       /\ Frame

---------------------------------------------------------------------------
(* __tests__/testsprite/TC004_user_dashboard_analytics_and_downloads.py    *)

\* Lines 70-75, in the order the loop of line 78 visits them.
endpoints ==
    <<[section |-> "analytics", path |-> "/api/dashboard/analytics"],
      [section |-> "order_history", path |-> "/api/dashboard/orders"],
      [section |-> "downloads", path |-> "/api/dashboard/downloads"],
      [section |-> "subscription_status", path |-> "/api/dashboard/subscription"]>>

\* The data of a section: null, a number, an object that has the keys its
\* section is asked for or lacks them, or a list that is empty or starts
\* with such an object or with a number.
SectionBodies ==
    {NotJson} \cup
    {[json |-> TRUE, kind |-> k, keys |-> "none", first |-> "none"] : k \in {"null", "number"}} \cup
    {[json |-> TRUE, kind |-> "object", keys |-> c, first |-> "none"] : c \in {"all", "some"}} \cup
    {[json |-> TRUE, kind |-> "list", keys |-> "none", first |-> f] : f \in {"none", "all", "some", "number"}}

\* Lines 37-56: the exception validate_dashboard_section ends with.
validate_dashboard_section(title, data) ==
    IF data.kind \notin {"object", "list"} THEN "AssertionError"
    ELSE CASE title = "analytics" -> IF data.keys # "all" THEN "AssertionError" ELSE "none"
           [] title = "order_history" ->
                 IF data.kind # "list" THEN "AssertionError"
                 ELSE IF data.first = "number" THEN "TypeError"
                 ELSE IF data.first = "some" THEN "AssertionError"
                 ELSE "none"
           [] title = "downloads" -> "none"
           [] title = "subscription_status" -> IF data.keys # "all" THEN "AssertionError" ELSE "none"

\* Lines 10-28 and 62-66: authenticate_user and the assertion on its token.
dashboard_authenticate(r) ==
    except_as(
        IF except_as(cart_json(r), "RequestException", "RuntimeError") # "none"
        THEN except_as(cart_json(r), "RequestException", "RuntimeError")
        ELSE IF r.body.kind = "object" /\ r.body.sessionToken # Missing
             THEN (IF r.body.sessionToken = Null THEN "AssertionError" ELSE "none")
        ELSE IF r.body.kind = "object" /\ r.body.accessToken # Missing THEN "none"
        ELSE "AssertionError",
        "Exception", "AssertionError")

\* Lines 80-89: the fetch of a section and the decoding of its answer.
dashboard_fetch(r) ==
    IF cart_json(r) = "JSONDecodeError" THEN except_as("JSONDecodeError", "ValueError", "AssertionError")
    ELSE except_as(cart_json(r), "RequestException", "AssertionError")

test_user_dashboard_analytics_and_downloads ==
    \/ /\ At("test_user_dashboard_analytics_and_downloads", "authenticate")
       /\ \E r \in Answers({200, 401},
                          {NotJson, JsonList} \cup
                          {[json |-> TRUE, kind |-> "object", sessionToken |-> t, accessToken |-> a]
                              : t \in {Missing, Null, "", "tokS"}, a \in {Missing, "tokA"}}) :
             /\ Recv(r, Sent("POST", "/api/auth/sign-in", Null, "none", "none", r))
             /\ Goto(dashboard_authenticate(r), "fetch", "done")
       /\ UNCHANGED loc
       /\ Frame
    \/ /\ At("test_user_dashboard_analytics_and_downloads", "fetch")
       /\ \E r \in Answers({200, 500}, SectionBodies) :
             /\ Recv(r, Sent("GET", endpoints[loc.i].path, Null, "valid", "none", r))
             /\ IF dashboard_fetch(r) # "none"
                THEN Goto(dashboard_fetch(r), "fetch", "done") /\ UNCHANGED loc
                ELSE /\ Goto(except_as(validate_dashboard_section(endpoints[loc.i].section, r.body),
                                       "AssertionError", "none"),
                             IF loc.i < Len(endpoints) THEN "fetch" ELSE "verdict", "done")
                     /\ loc' = IF validate_dashboard_section(endpoints[loc.i].section, r.body) = "TypeError"
                               THEN loc
                               ELSE [i |-> loc.i + 1,
                                     results |-> Append(loc.results,
                                         [section |-> endpoints[loc.i].section,
                                          result |-> IF validate_dashboard_section(endpoints[loc.i].section, r.body) = "none"
                                                     THEN "PASS" ELSE "FAIL"])]
       /\ Frame
    \/ /\ At("test_user_dashboard_analytics_and_downloads", "verdict")
       /\ raised' = IF \E k \in 1..Len(loc.results) : loc.results[k].result # "PASS"
                    THEN "AssertionError" ELSE "none"
       /\ pc' = "done"
       /\ UNCHANGED <<loc, resp, log>>
       /\ Frame

---------------------------------------------------------------------------
(* The browser scripts.  Each is one coroutine run_test: start Playwright, *)
(* launch Chromium, open a context and a page, go through the UI steps of  *)
(* its body, and tear down in the finally block.  A UI step is the call on *)
(* the locator `elem` bound at line `elem` of the script (0, or the line   *)
(* of the statement: the call names its own locator or none), with the     *)
(* text filled, the text the assertion looks for, or the name whose        *)
(* attribute a scroll passes, in `arg`.                                    *)

UiStep(op, elem, arg) == [op |-> op, elem |-> elem, arg |-> arg]

\* TC015_Security___Cross_Site_Scripting_XSS_Prevention.py, lines 48-77.
TC015_Security___Cross_Site_Scripting_XSS_Prevention ==
    <<UiStep("fill", 50, "<script>alert('XSS')</script>"),
      UiStep("click", 56, "none"),
      UiStep("click", 62, "none"),
      UiStep("click", 68, "none"),
      UiStep("input_value", 68, "none"),
      UiStep("assert", 0, "<script>alert('XSS')</script>"),
      UiStep("text_content", 76, "none"),
      UiStep("assert", 0, "unexpected error")>>

\* TC019_Offline_Support_and_Graceful_Degradation.py, lines 50-63.
TC019_Offline_Support_and_Graceful_Degradation ==
    [k \in 1..13 |-> UiStep("expect", 0, "none")]

\* TC008_Add_Beat_to_Cart_and_Cart_Persistence.py, lines 48-124.
TC008_Add_Beat_to_Cart_and_Cart_Persistence ==
    <<UiStep("click", 50, "none"), UiStep("click", 56, "none"),
      UiStep("click", 62, "none"), UiStep("click", 68, "none"),
      UiStep("click", 74, "none"), UiStep("click", 80, "none"),
      UiStep("click", 86, "none"), UiStep("click", 92, "none"),
      UiStep("fill", 98, "slemba2@yahoo.fr"), UiStep("click", 103, "none"),
      UiStep("fill", 109, "Trust!NoOne93"), UiStep("click", 114, "none"),
      UiStep("click", 120, "none"), UiStep("assert_false", 0, "none")>>

\* TC013_Responsive_Layout_Across_Devices.py, lines 47-147.
TC013_Responsive_Layout_Across_Devices ==
    <<UiStep("goto", 49, "none"), UiStep("wheel", 52, "window"),
      UiStep("click", 57, "none"), UiStep("goto", 62, "none"),
      UiStep("wheel", 65, "window"), UiStep("click", 70, "none"),
      UiStep("goto", 75, "none"), UiStep("wheel", 78, "window"),
      UiStep("click", 83, "none"), UiStep("goto", 88, "none"),
      UiStep("wheel", 91, "window"), UiStep("click", 96, "none"),
      UiStep("fill", 102, ""), UiStep("click", 107, "none"),
      UiStep("goto", 111, "none"), UiStep("goto", 115, "none"),
      UiStep("wheel", 118, "window"), UiStep("click", 123, "none"),
      UiStep("goto", 128, "none"), UiStep("wheel", 131, "window"),
      UiStep("click", 136, "none"), UiStep("goto", 141, "none"),
      UiStep("wheel", 144, "window"), UiStep("assert_false", 147, "none")>>

\* TC006_Beat_Catalog_Filtering_and_Search_Operations.py, lines 47-139.
TC006_Beat_Catalog_Filtering_and_Search_Operations ==
    <<UiStep("click", 50, "none"), UiStep("click", 56, "none"),
      UiStep("click", 62, "none"), UiStep("click", 68, "none"),
      UiStep("click", 74, "none"), UiStep("wheel", 79, "window"),
      UiStep("click", 84, "none"), UiStep("click", 90, "none"),
      UiStep("click", 96, "none"), UiStep("fill", 102, "Vol.1"),
      UiStep("click", 108, "none"), UiStep("click", 114, "none"),
      UiStep("all_text_contents", 119, "none"), UiStep("check", 120, "none"),
      UiStep("assert_true", 125, "none"),
      UiStep("all_text_contents", 128, "none"), UiStep("float", 129, "none"),
      UiStep("check", 130, "none"), UiStep("check", 134, "none"),
      UiStep("check", 138, "none"), UiStep("check", 139, "none")>>

\* TC017_Performance_Benchmark___Page_Load_and_Interaction.py, lines 47-164.
TC017_Performance_Benchmark___Page_Load_and_Interaction ==
    <<UiStep("click", 50, "none"), UiStep("click", 56, "none"),
      UiStep("click", 62, "none"), UiStep("click", 68, "none"),
      UiStep("click", 73, "none"), UiStep("wheel", 77, "window"),
      UiStep("wheel", 80, "window"), UiStep("goto", 84, "none"),
      UiStep("click", 89, "none"), UiStep("click", 95, "none"),
      UiStep("fill", 101, "Aurora"), UiStep("click", 106, "none"),
      UiStep("click", 111, "none"), UiStep("wheel", 115, "window"),
      UiStep("wheel", 118, "window"), UiStep("goto", 122, "none"),
      UiStep("wheel", 125, "window"), UiStep("wheel", 128, "window"),
      UiStep("click", 133, "none"), UiStep("click", 139, "none"),
      UiStep("wheel", 143, "window"), UiStep("wheel", 146, "window"),
      UiStep("assert_true", 152, "none"), UiStep("assert_true", 153, "none"),
      UiStep("assert_true", 158, "none"), UiStep("assert_true", 159, "none"),
      UiStep("assert_true", 164, "none")>>

\* TC013_Persistent_Shopping_Cart_and_Cross_Device_Sync.py, lines 47-174.
TC013_Persistent_Shopping_Cart_and_Cross_Device_Sync ==
    <<UiStep("click", 52, "none"), UiStep("fill", 59, "slemba2@yahoo.fr"),
      UiStep("click", 65, "none"), UiStep("fill", 72, "Trust!NoOne93"),
      UiStep("click", 78, "none"), UiStep("click", 85, "none"),
      UiStep("click", 92, "none"), UiStep("click", 99, "none"),
      UiStep("click", 106, "none"), UiStep("click", 113, "none"),
      UiStep("click", 120, "none"), UiStep("fill", 127, "slemba2@yahoo.fr"),
      UiStep("click", 133, "none"), UiStep("fill", 140, "Trust!NoOne93"),
      UiStep("click", 146, "none"), UiStep("click", 153, "none"),
      UiStep("click", 160, "none"), UiStep("goto", 165, "none"),
      UiStep("expect", 172, "none")>>

\* TC017_Favorites_and_Wishlist_Synchronization.py, lines 47-177.
TC017_Favorites_and_Wishlist_Synchronization ==
    <<UiStep("click", 52, "none"), UiStep("fill", 59, "slemba2@yahoo.fr"),
      UiStep("click", 65, "none"), UiStep("fill", 72, "Trust!NoOne93"),
      UiStep("click", 78, "none"), UiStep("click", 85, "none"),
      UiStep("click", 92, "none"), UiStep("click", 99, "none"),
      UiStep("click", 106, "none"), UiStep("click", 113, "none"),
      UiStep("click", 120, "none"), UiStep("click", 127, "none"),
      UiStep("click", 134, "none"), UiStep("click", 141, "none"),
      UiStep("fill", 148, "slemba2@yahoo.fr"), UiStep("click", 154, "none"),
      UiStep("fill", 161, "Trust!NoOne93"), UiStep("click", 167, "none"),
      UiStep("expect", 173, "none"), UiStep("expect", 174, "none"),
      UiStep("expect", 175, "none"), UiStep("expect", 176, "none"),
      UiStep("expect", 177, "none")>>

BrowserScripts ==
    {"TC015_Security___Cross_Site_Scripting_XSS_Prevention",
     "TC019_Offline_Support_and_Graceful_Degradation",
     "TC008_Add_Beat_to_Cart_and_Cart_Persistence",
     "TC013_Responsive_Layout_Across_Devices",
     "TC006_Beat_Catalog_Filtering_and_Search_Operations",
     "TC017_Performance_Benchmark___Page_Load_and_Interaction",
     "TC013_Persistent_Shopping_Cart_and_Cross_Device_Sync",
     "TC017_Favorites_and_Wishlist_Synchronization"}

browser_body(s) ==
    CASE s = "TC015_Security___Cross_Site_Scripting_XSS_Prevention" ->
            TC015_Security___Cross_Site_Scripting_XSS_Prevention
      [] s = "TC019_Offline_Support_and_Graceful_Degradation" ->
            TC019_Offline_Support_and_Graceful_Degradation
      [] s = "TC008_Add_Beat_to_Cart_and_Cart_Persistence" ->
            TC008_Add_Beat_to_Cart_and_Cart_Persistence
      [] s = "TC013_Responsive_Layout_Across_Devices" ->
            TC013_Responsive_Layout_Across_Devices
      [] s = "TC006_Beat_Catalog_Filtering_and_Search_Operations" ->
            TC006_Beat_Catalog_Filtering_and_Search_Operations
      [] s = "TC017_Performance_Benchmark___Page_Load_and_Interaction" ->
            TC017_Performance_Benchmark___Page_Load_and_Interaction
      [] s = "TC013_Persistent_Shopping_Cart_and_Cross_Device_Sync" ->
            TC013_Persistent_Shopping_Cart_and_Cross_Device_Sync
      [] s = "TC017_Favorites_and_Wishlist_Synchronization" ->
            TC017_Favorites_and_Wishlist_Synchronization

\* The names a browser script binds before its body runs: its imports
\* (lines 1-2) and the locals of run_test.
BoundNames == {"asyncio", "async_api", "pw", "browser", "context", "page", "frame", "elem"}

\* A script in which every name is bound.
load_name_bound(name) == "none"

\* Evaluating a name: NameError when nothing binds it.
load_name(name) == IF name \in BoundNames THEN "none" ELSE "NameError"

\* What the page may do to a UI call: the exception it ends with and the
\* text it returns.  expect(...) fails with an AssertionError, the other
\* calls with a Playwright Error or its subclass TimeoutError.  The
\* argument of page.mouse.wheel is evaluated before the call is made.  A
\* "check" is an assertion about what the page showed, "assert_true" one
\* about constants that satisfy it, "float" the conversion of the prices.
UiResult(exc, value) == [exc |-> exc, value |-> value]

ui_results(step, value) ==
    CASE step.op \in {"click", "fill", "goto"} ->
            {UiResult(e, value) : e \in {"none", "Error", "TimeoutError"}}
      [] step.op = "wheel" ->
            IF load_name(step.arg) # "none" THEN {UiResult(load_name(step.arg), value)}
            ELSE {UiResult(e, value) : e \in {"none", "Error"}}
      [] step.op = "all_text_contents" -> {UiResult(e, value) : e \in {"none", "Error"}}
      [] step.op = "float" -> {UiResult(e, value) : e \in {"none", "ValueError"}}
      [] step.op = "check" -> {UiResult(e, value) : e \in {"none", "AssertionError"}}
      [] step.op = "assert_true" -> {UiResult("none", value)}
      [] step.op = "expect" -> {UiResult(e, value) : e \in {"none", "AssertionError"}}
      [] step.op = "input_value" ->
            {UiResult("Error", value)} \cup
            {UiResult("none", v) : v \in {"<script>alert('XSS')</script>", ""}}
      [] step.op = "text_content" ->
            {UiResult("TimeoutError", value)} \cup
            {UiResult("none", v) : v \in {"unexpected error", "", Null}}
      [] step.op = "assert" ->
            {UiResult(IF value = step.arg THEN "none" ELSE "AssertionError", value)}
      [] step.op = "assert_false" -> {UiResult("AssertionError", value)}

\* A call of the harness as the run keeps it, with the exception it ended
\* with.
Called(call, exc) == [call |-> call, exc |-> exc]

\* A finally block that calls close() and stop() on None as well.
teardown_guard_always(created) == TRUE

\* The finally block: one teardown call on a resource that was created.
\* An exception of the call leaves run_test at once, in place of the one
\* the body raised.
teardown_guard(created) == created

\* A finally block that wraps each call in its own try/except.
teardown_isolated(created, call, next) ==
    IF created
    THEN \E e \in {"none", "Error"} :
            /\ loc' = [loc EXCEPT !.calls = Append(@, Called(call, e))]
            /\ raised' = raised
            /\ pc' = next
    ELSE /\ pc' = next
         /\ UNCHANGED <<loc, raised>>

\* One guarded call of the finally block:  if created: await call().
teardown(created, call, next) ==
    IF teardown_guard(created)
    THEN \E e \in {"none", "Error"} :
            /\ loc' = [loc EXCEPT !.calls = Append(@, Called(call, e))]
            /\ raised' = AfterFinally(raised, e)
            /\ pc' = IF e = "none" THEN next ELSE "done"
    ELSE /\ pc' = next
         /\ UNCHANGED <<loc, raised>>

\* The start-up call that binds `name`; when it raises, the name stays None.
startup(name, call, next) ==
    \E e \in {"none", "Error"} :
        /\ loc' = IF e = "none"
                  THEN [loc EXCEPT ![name] = TRUE, !.calls = Append(@, Called(call, e))]
                  ELSE [loc EXCEPT !.calls = Append(@, Called(call, e))]
        /\ Goto(e, next, "close_context")

run_test ==
    \/ /\ script \in BrowserScripts /\ pc = "start"
       /\ startup("pw", "async_playwright().start", "launch")
       /\ UNCHANGED <<resp, log>>
       /\ Frame
    \/ /\ script \in BrowserScripts /\ pc = "launch"
       /\ startup("browser", "pw.chromium.launch", "new_context")
       /\ UNCHANGED <<resp, log>>
       /\ Frame
    \/ /\ script \in BrowserScripts /\ pc = "new_context"
       /\ startup("context", "browser.new_context", "goto")
       /\ UNCHANGED <<resp, log>>
       /\ Frame
    \/ \* Lines 27-46: the default timeout, the page, the navigation and the
       \* waits for the load state, whose errors are swallowed.
       /\ script \in BrowserScripts /\ pc = "goto"
       /\ \E e \in {"none", "Error", "TimeoutError"} : Goto(e, "body", "close_context")
       /\ UNCHANGED <<loc, resp, log>>
       /\ Frame
    \/ /\ script \in BrowserScripts /\ pc = "body"
       /\ \E u \in ui_results(browser_body(script)[loc.i], loc.value) :
             /\ loc' = [loc EXCEPT
                          !.i = @ + 1,
                          !.value = u.value,
                          !.filled = IF browser_body(script)[loc.i].op = "fill"
                                     THEN browser_body(script)[loc.i].elem ELSE @,
                          !.read = IF browser_body(script)[loc.i].op = "input_value"
                                   THEN browser_body(script)[loc.i].elem ELSE @]
             /\ Goto(u.exc,
                     IF loc.i < Len(browser_body(script)) THEN "body" ELSE "close_context",
                     "close_context")
       /\ UNCHANGED <<resp, log>>
       /\ Frame
    \/ /\ script \in BrowserScripts /\ pc = "close_context"
       /\ teardown(loc.context, "context.close", "close_browser")
       /\ UNCHANGED <<resp, log>>
       /\ Frame
    \/ /\ script \in BrowserScripts /\ pc = "close_browser"
       /\ teardown(loc.browser, "browser.close", "stop_pw")
       /\ UNCHANGED <<resp, log>>
       /\ Frame
    \/ /\ script \in BrowserScripts /\ pc = "stop_pw"
       /\ teardown(loc.pw, "pw.stop", "done")
       /\ UNCHANGED <<resp, log>>
       /\ Frame

---------------------------------------------------------------------------
(* scripts/fix-home.py.  Text is a sequence of tokens: "nl", "cr" and "sp" *)
(* are the characters \n, \r and space, "$" is a dollar sign, "bq" is a    *)
(* backquote, and every other token is a run of characters without white   *)
(* space at its ends that the script treats as a whole.                    *)

Whitespace == {"nl", "cr", "sp"}

\* Lines 9-24: the regular expression, one element per piece: "s+" is \s+,
\* "$?" is \$?, the rest match themselves.
old_pattern ==
    <<"{(() => {",
      "nl", "s+", "const isFree =",
      "nl", "s+", "beat.is_free ||",
      "nl", "s+", "beat.tags?.some(",
      "nl", "s+", "(tag: WooCommerceTag) => tag.name.toLowerCase() === \"free\"",
      "nl", "s+", ") ||",
      "nl", "s+", "beat.price === 0 ||",
      "nl", "s+", "beat.price === \"0\" ||",
      "nl", "s+", "parseFloat(beat.price) === 0 ||",
      "nl", "s+", "false;",
      "nl", "s+", "return isFree ? (",
      "nl", "s+", "<span className=\"text-[var(--accent-cyan)]\">FREE</span>",
      "nl", "s+", ") : (",
      "nl", "s+", "bq", "$?", "$?", "{beat.price || \"29.99\"}", "bq",
      "nl", "s+", ");",
      "nl", "s+", "})()}">>

\* A replacement that ends in a copy of the old block.
new_code_with_old ==
    <<"{isFreeProduct(beat) ? (", "nl", "sp">>
    \o [k \in 1..Len(old_pattern) |->
           CASE old_pattern[k] = "s+" -> "sp"
             [] old_pattern[k] = "$?" -> "$"
             [] OTHER -> old_pattern[k]]

\* Lines 27-31; the indentation of a line is kept as one space.
new_code ==
    <<"{isFreeProduct(beat) ? (",
      "nl", "sp", "<span className=\"text-[var(--accent-cyan)]\">FREE</span>",
      "nl", "sp", ") : (",
      "nl", "sp", "bq", "$", "$", "{getFormattedPrice(beat)}", "bq",
      "nl", "sp", ")}">>

\* The position after the white space that starts at i.
RECURSIVE skip_whitespace(_, _)
skip_whitespace(string, i) ==
    IF i <= Len(string) /\ string[i] \in Whitespace
    THEN skip_whitespace(string, i + 1) ELSE i

\* re: the position after a match of pattern[k..] that starts at string[i],
\* 0 when there is none.  No piece of old_pattern that follows \s+ or \$?
\* can match what they match, so the greedy choice is the only one.
RECURSIVE match_end(_, _, _, _)
match_end(pattern, k, string, i) ==
    IF k > Len(pattern) THEN i
    ELSE IF pattern[k] = "s+"
         THEN IF skip_whitespace(string, i) = i THEN 0
              ELSE match_end(pattern, k + 1, string, skip_whitespace(string, i))
    ELSE IF pattern[k] = "$?"
         THEN IF i <= Len(string) /\ string[i] = "$"
              THEN match_end(pattern, k + 1, string, i + 1)
              ELSE match_end(pattern, k + 1, string, i)
    ELSE IF i <= Len(string) /\ string[i] = pattern[k]
         THEN match_end(pattern, k + 1, string, i + 1)
    ELSE 0

\* Line 34: re.sub scans from the left: the text before the first match
\* from i on is kept, the match is replaced, and the scan goes on after it.
RECURSIVE re_sub_from(_, _, _, _)
re_sub_from(pattern, repl, string, i) ==
    LET starts == {j \in i..Len(string) : match_end(pattern, 1, string, j) # 0}
        first == CHOOSE j \in starts : \A k \in starts : j <= k
    IN  IF starts = {} THEN SubSeq(string, i, Len(string))
        ELSE SubSeq(string, i, first - 1) \o repl
             \o re_sub_from(pattern, repl, string, match_end(pattern, 1, string, first))

re_sub(pattern, repl, string) == re_sub_from(pattern, repl, string, 1)

\* Line 5: open(..., 'r') reads with universal newlines, \r\n and \r
\* become \n.
\* The text is translated in two halves that do not split a \r\n.
RECURSIVE read_text(_)
read_text(file) ==
    LET half == Len(file) \div 2
        cut == IF file[half] = "cr" /\ file[half + 1] = "nl" THEN half + 1 ELSE half
    IN  IF Len(file) <= 2
        THEN (IF file = <<"cr", "nl">> THEN <<"nl">>
              ELSE [k \in 1..Len(file) |-> IF file[k] = "cr" THEN "nl" ELSE file[k]])
        ELSE read_text(SubSeq(file, 1, cut)) \o read_text(SubSeq(file, cut + 1, Len(file)))

\* Line 37: open(..., 'w') writes every \n as the line separator of the
\* platform.
RECURSIVE write_text(_, _)
write_text(content, linesep) ==
    IF Len(content) <= 1
    THEN (IF content = <<"nl">> THEN linesep ELSE content)
    ELSE write_text(SubSeq(content, 1, Len(content) \div 2), linesep)
         \o write_text(SubSeq(content, Len(content) \div 2 + 1, Len(content)), linesep)

\* The files the script is run on: up to MaxSegments pieces, each a line of
\* other text, the new expression, or the old block written with 0 to 3
\* dollar signs and with or without indentation, every line of the file
\* ending the same way.
MaxSegments == 2
LineEndings == {<<"nl">>, <<"cr", "nl">>}

Segments ==
    {[kind |-> "text", dollars |-> 0, indent |-> <<>>],
     [kind |-> "new", dollars |-> 0, indent |-> <<>>]} \cup
    {[kind |-> "old", dollars |-> d, indent |-> w] : d \in 0..3, w \in {<<>>, <<"sp">>}}

RECURSIVE Flatten(_)
Flatten(ss) ==
    IF Len(ss) = 0 THEN <<>>
    ELSE IF Len(ss) = 1 THEN ss[1]
    ELSE Flatten(SubSeq(ss, 1, Len(ss) \div 2))
         \o Flatten(SubSeq(ss, Len(ss) \div 2 + 1, Len(ss)))

old_block(dollars, indent) ==
    Flatten([k \in 1..Len(old_pattern) |->
        CASE old_pattern[k] = "s+" -> indent
          [] old_pattern[k] = "$?" -> <<>>
          [] old_pattern[k] = "bq" /\ old_pattern[k + 1] = "$?" ->
                <<"bq">> \o [j \in 1..dollars |-> "$"]
          [] OTHER -> <<old_pattern[k]>>])

segment_text(seg, eol) ==
    write_text(CASE seg.kind = "text" -> <<"x", "nl">>
                 [] seg.kind = "new" -> new_code
                 [] seg.kind = "old" -> old_block(seg.dollars, seg.indent),
               eol)

file_text(segs, eol) == Flatten([k \in 1..Len(segs) |-> segment_text(segs[k], eol)])

HomeFiles ==
    {[exists |-> FALSE, segments |-> <<>>, eol |-> <<"nl">>]} \cup
    {[exists |-> TRUE, segments |-> segs, eol |-> eol]
        : segs \in SeqsUpTo(Segments, MaxSegments), eol \in LineEndings}

\* The script, run Runs times in a row on the same file.
Runs == 2

fix_home ==
    \/ /\ At("fix-home", "read")
       /\ \E e \in (IF loc.exists THEN {"none", "PermissionError", "UnicodeDecodeError"}
                    ELSE {"FileNotFoundError"}) :
             /\ Goto(e, "sub", "done")
             /\ loc' = IF e = "none" THEN [loc EXCEPT !.content = read_text(loc.file)] ELSE loc
       /\ UNCHANGED <<resp, log>>
       /\ Frame
    \/ /\ At("fix-home", "sub")
       /\ loc' = [loc EXCEPT !.content = re_sub(old_pattern, new_code, @)]
       /\ pc' = "write"
       /\ UNCHANGED <<resp, log, raised>>
       /\ Frame
    \/ /\ At("fix-home", "write")
       /\ \E e \in {"none", "PermissionError", "OSError"} :
             /\ Goto(e, "print", "done")
             /\ loc' = [loc EXCEPT !.file = CASE e = "none" -> write_text(loc.content, loc.linesep)
                                              [] e = "PermissionError" -> @
                                              [] e = "OSError" -> <<>>]
       /\ UNCHANGED <<resp, log>>
       /\ Frame
    \/ /\ At("fix-home", "print")
       /\ loc' = [loc EXCEPT !.out = Append(@, "Fixed home.tsx"),
                             !.run = @ + 1,
                             !.written = Append(@, loc.file)]
       /\ pc' = IF loc.run < Runs THEN "read" ELSE "done"
       /\ UNCHANGED <<resp, log, raised>>
       /\ Frame

---------------------------------------------------------------------------
(* A run: one script, from the first statement of its test function.       *)

Scripts == {"test_create_order_with_idempotency_support",
            "test_get_order_by_id_authorization_and_existence",
            "test_handle_payment_webhook_signature_validation",
            "test_create_reservation_with_valid_and_invalid_data",
            "test_update_reservation_status_authorized_user",
            "test_get_order_invoice_url_availability",
            "test_beats_store_filtering_and_search",
            "test_favorites_wishlist_management",
            "test_audio_player_waveform_playback_controls",
            "test_service_booking_system_functionality",
            "test_shopping_cart_and_checkout_flow",
            "test_get_current_user_orders_pagination",
            "test_get_available_reservation_services_public_access",
            "test_create_payment_session_with_required_fields",
            "test_log_download_with_authentication",
            "test_authentication_system_user_synchronization",
            "test_internationalization_multilanguage_support",
            "test_subscription_plans_and_billing_integration",
            "test_error_handling_and_monitoring_report",
            "test_user_dashboard_analytics_and_downloads",
            "fix-home"} \cup BrowserScripts

\* The scripts in which  except RequestException  encloses a Response.json():
\* only there does the class of its JSONDecodeError decide what is raised.
CatchesRequestException == {"test_get_order_invoice_url_availability",
                            "test_get_current_user_orders_pagination",
                            "test_create_payment_session_with_required_fields",
                            "test_authentication_system_user_synchronization",
                            "test_internationalization_multilanguage_support"}

InitPc(s) ==
    CASE s = "test_create_order_with_idempotency_support" -> "post1"
      [] s = "test_get_order_by_id_authorization_and_existence" -> "create"
      [] s = "test_handle_payment_webhook_signature_validation" -> "valid"
      [] s = "test_create_reservation_with_valid_and_invalid_data" -> "valid"
      [] s = "test_update_reservation_status_authorized_user" -> "create"
      [] s = "test_get_order_invoice_url_availability" -> "create_order"
      [] s = "test_beats_store_filtering_and_search" -> "get"
      [] s = "test_favorites_wishlist_management" -> "beats"
      [] s = "test_audio_player_waveform_playback_controls" -> "signin"
      [] s = "test_service_booking_system_functionality" -> "book"
      [] s = "test_shopping_cart_and_checkout_flow" -> "guest_create"
      [] s = "test_get_current_user_orders_pagination" -> "get"
      [] s = "test_get_available_reservation_services_public_access" -> "get"
      [] s = "test_create_payment_session_with_required_fields" -> "post"
      [] s = "test_log_download_with_authentication" -> "products"
      [] s = "test_authentication_system_user_synchronization" -> "login"
      [] s = "test_internationalization_multilanguage_support" -> "locales"
      [] s = "test_subscription_plans_and_billing_integration" -> "login"
      [] s = "test_error_handling_and_monitoring_report" -> "unauthorized"
      [] s = "test_user_dashboard_analytics_and_downloads" -> "authenticate"
      [] s \in BrowserScripts -> "start"
      [] s = "fix-home" -> "read"

NoLocals == [none |-> Null]

InitLocs(s) ==
    CASE s = "test_create_order_with_idempotency_support" ->
            {[key |-> k, response1 |-> NoResp, data1 |-> NotJson, data1_bound |-> FALSE]
                : k \in IdempotencyKeys}
      [] s = "test_get_order_by_id_authorization_and_existence" ->
            {[order_id |-> Null, resp_json |-> NotJson]}
      [] s = "test_get_order_invoice_url_availability" -> {[order_id |-> Null]}
      [] s = "test_beats_store_filtering_and_search" -> {[i |-> 1]}
      [] s = "test_favorites_wishlist_management" ->
            {[beat_id |-> Null, created_favorite_id |-> Null, created_wishlist_id |-> Null]}
      [] s = "test_create_reservation_with_valid_and_invalid_data" ->
            {[json_response |-> NotJson]}
      [] s = "test_update_reservation_status_authorized_user" ->
            {[reservation_id |-> Null, i |-> 1]}
      [] s = "test_audio_player_waveform_playback_controls" ->
            {[headers_bound |-> FALSE, saved_state |-> NoState]}
      [] s = "test_service_booking_system_functionality" ->
            {[created_booking_ids |-> <<>>, i |-> 1, deleted |-> 0]}
      [] s = "test_shopping_cart_and_checkout_flow" ->
            {[guest_cart_item |-> NotJson, token |-> Null, auth_cart_item |-> NotJson]}
      [] s = "test_log_download_with_authentication" -> {[product_id |-> Null]}
      [] s = "test_authentication_system_user_synchronization" -> {[id |-> Null, email |-> Null]}
      [] s = "test_internationalization_multilanguage_support" -> {[i |-> 1]}
      [] s = "test_subscription_plans_and_billing_integration" -> {[plan_id |-> PlanIds.none]}
      [] s = "test_error_handling_and_monitoring_report" -> {[results |-> <<>>, token |-> Null, files |-> <<>>]}
      [] s = "test_user_dashboard_analytics_and_downloads" -> {[i |-> 1, results |-> <<>>]}
      [] s \in BrowserScripts ->
            {[pw |-> FALSE, browser |-> FALSE, context |-> FALSE, i |-> 1,
              value |-> Null, filled |-> 0, read |-> 0, calls |-> <<>>]}
      [] s = "fix-home" ->
            {[exists |-> f.exists, segments |-> f.segments, eol |-> f.eol,
              file |-> file_text(f.segments, f.eol), linesep |-> sep,
              content |-> <<>>, out |-> <<>>, run |-> 1, written |-> <<>>]
                : f \in HomeFiles, sep \in LineEndings}
      [] OTHER -> {NoLocals}

Init ==
    /\ script \in Scripts
    /\ modernRequests \in (IF script \in CatchesRequestException THEN BOOLEAN ELSE {TRUE})
    /\ pc = InitPc(script)
    /\ loc \in InitLocs(script)
    /\ resp = NoResp
    /\ raised = "none"
    /\ log = <<>>

Next ==
    \/ test_create_order_with_idempotency_support
    \/ test_get_order_by_id_authorization_and_existence
    \/ test_handle_payment_webhook_signature_validation
    \/ test_create_reservation_with_valid_and_invalid_data
    \/ test_update_reservation_status_authorized_user
    \/ test_get_order_invoice_url_availability
    \/ test_beats_store_filtering_and_search
    \/ test_favorites_wishlist_management
    \/ test_audio_player_waveform_playback_controls
    \/ test_service_booking_system_functionality
    \/ test_shopping_cart_and_checkout_flow
    \/ test_get_current_user_orders_pagination
    \/ test_get_available_reservation_services_public_access
    \/ test_create_payment_session_with_required_fields
    \/ test_log_download_with_authentication
    \/ test_authentication_system_user_synchronization
    \/ test_internationalization_multilanguage_support
    \/ test_subscription_plans_and_billing_integration
    \/ test_error_handling_and_monitoring_report
    \/ test_user_dashboard_analytics_and_downloads
    \/ run_test
    \/ fix_home

Spec == Init /\ [][Next]_vars

---------------------------------------------------------------------------
(* Verdicts.                                                               *)

Done(s) == script = s /\ pc = "done"
Passed(s) == Done(s) /\ raised = "none"

\* r answered 201 with a JSON object whose id is i.
Created201(r, i) ==
    /\ r.exc = "none" /\ r.status = 201
    /\ r.body.json /\ r.body.kind = "object" /\ r.body.id = i

\* C1: the idempotency script passes exactly when the first POST /api/orders
\* returned 201 with a non-empty id and the second POST, sent with the same
\* Idempotency-Key and payload, returned 201 with that same id.
C1_IdempotentByKey ==
    Done("test_create_order_with_idempotency_support") =>
        ( raised = "none" <=>
            /\ Len(log) >= 2
            /\ log[1].method = "POST" /\ log[2].method = "POST"
            /\ log[1].path = "/api/orders" /\ log[2].path = log[1].path
            /\ log[2].payload = log[1].payload /\ log[2].auth = log[1].auth
            /\ \E i \in Ids : Created201(loc.response1, i) /\ Created201(resp, i) )

C1_Witness ==
    /\ Passed("test_create_order_with_idempotency_support")
    /\ Len(log) = 3 /\ log[3].method = "DELETE" /\ log[3].status = 500

\* C3: the order-retrieval script passes only if the order created by the
\* valid user was answered 200 with the same id to that user, 403 to the
\* other user, and the id that does not exist was answered 404 to the
\* valid user.
C3_OwnershipAuthorization ==
    Passed("test_get_order_by_id_authorization_and_existence") =>
        /\ Len(log) >= 4
        /\ loc.order_id \in Ids
        /\ log[1].method = "POST" /\ log[1].auth = "valid" /\ log[1].status = 201
        /\ \A k \in 2..4 : log[k].method = "GET" /\ log[k].path = "/api/orders/{id}"
        /\ log[2].id = loc.order_id /\ log[2].auth = "valid" /\ log[2].status = 200
        /\ loc.resp_json.kind = "object" /\ loc.resp_json.id = loc.order_id
        /\ log[3].id = loc.order_id /\ log[3].auth = "forbidden" /\ log[3].status = 403
        /\ log[4].id # loc.order_id /\ log[4].auth = "valid" /\ log[4].status = 404

C3_Witness ==
    /\ Passed("test_get_order_by_id_authorization_and_existence")
    /\ Len(log) = 5 /\ log[5].method = "DELETE" /\ log[5].id = loc.order_id

\* C4: the webhook script passes exactly when the request with the valid
\* signature was answered 200 and the request with the invalid signature,
\* carrying the same payload, was answered 400.
C4_WebhookSignature ==
    Done("test_handle_payment_webhook_signature_validation") =>
        ( raised = "none" <=>
            /\ Len(log) = 2
            /\ \A k \in 1..2 : log[k].method = "POST" /\ log[k].path = "/api/payments/webhook"
            /\ log[1].auth = "v1=valid_signature_example" /\ log[1].status = 200
            /\ log[2].auth = "v1=invalid_signature_example" /\ log[2].status = 400
            /\ log[2].payload = log[1].payload )

C4_Witness ==
    /\ Passed("test_handle_payment_webhook_signature_validation")
    /\ Len(log) = 2

C6_StatusUpdates ==
    Passed("test_update_reservation_status_authorized_user") =>
        /\ Len(log) >= 7
        /\ loc.reservation_id \in Ids
        /\ \A k \in 2..7 : /\ log[k].method = "PATCH"
                           /\ log[k].path = "/api/reservations/{id}/status"
                           /\ log[k].id = loc.reservation_id
        /\ \A k \in 2..6 : log[k].auth = "authorized" /\ log[k].status = 200
        /\ <<log[2].payload, log[3].payload, log[4].payload, log[5].payload, log[6].payload>>
              = <<"draft", "pending", "confirmed", "completed", "cancelled">>
        /\ log[7].auth = "unauthorized" /\ log[7].status = 403

C6_Witness ==
    /\ Passed("test_update_reservation_status_authorized_user")
    /\ Len(log) = 8 /\ log[8].method = "DELETE"

\* C9: once the invoice has been requested, the invoice script passes
\* exactly when the answer is 404, or is 200 with a JSON object whose url is
\* a string starting with "http"; every other status, and a 200 without
\* such a url, fails it.
InvoiceAccepted(r) ==
    /\ r.exc = "none"
    /\ \/ r.status = 404
       \/ /\ r.status = 200
          /\ r.body.json /\ r.body.kind = "object" /\ r.body.url.type = "str"
          /\ Len(r.body.url.text) >= 4
          /\ <<r.body.url.text[1], r.body.url.text[2], r.body.url.text[3], r.body.url.text[4]>>
                = <<"h", "t", "t", "p">>

C9_InvoiceAvailability ==
    ( /\ Done("test_get_order_invoice_url_availability")
      /\ Len(log) = 2 /\ log[2].path = "/api/orders/{id}/invoice" ) =>
        (raised = "none" <=> InvoiceAccepted(resp))

C9_Witness ==
    /\ Passed("test_get_order_invoice_url_availability")
    /\ resp.status = 200 /\ Len(resp.body.url.text) = 9

\* C2: for each of the six filter sets, the beats script accepts an answer
\* only if every returned beat satisfies every supplied filter: genre equal
\* to the filter ignoring case, minBPM <= bpm <= maxBPM, minPrice <= price <=
\* maxPrice, and the search term, ignoring case, a substring of the title or
\* of the description.  (An empty list satisfies this.)
SameLetter(a, b) ==
    \/ a = b
    \/ \E i \in 1..Len(UpperChars) : {a, b} = {UpperChars[i], LowerChars[i]}
EqualIgnoringCase(a, b) ==
    Len(a) = Len(b) /\ \A i \in 1..Len(a) : SameLetter(a[i], b[i])
SubstringIgnoringCase(needle, v) ==
    /\ v.type = "str"
    /\ \E i \in 1..(Len(v.text) - Len(needle) + 1) :
          \A j \in 1..Len(needle) : SameLetter(needle[j], v.text[i + j - 1])
SatisfiesFilters(beat, f) ==
    /\ "genre" \in f.has => beat.genre.type = "str" /\ EqualIgnoringCase(beat.genre.text, f.genre)
    /\ "minBPM" \in f.has => beat.bpm # NoNumber /\ f.minBPM <= beat.bpm
    /\ "maxBPM" \in f.has => beat.bpm # NoNumber /\ beat.bpm <= f.maxBPM
    /\ "minPrice" \in f.has => beat.price # NoNumber /\ f.minPrice <= beat.price
    /\ "maxPrice" \in f.has => beat.price # NoNumber /\ beat.price <= f.maxPrice
    /\ "search" \in f.has => \/ SubstringIgnoringCase(f.search, beat.title)
                             \/ SubstringIgnoringCase(f.search, beat.description)

C2_FiltersHoldForEveryBeat ==
    ( /\ At("test_beats_store_filtering_and_search", "check")
      /\ beats_check(resp, filter_tests[loc.i]) = "none" ) =>
        /\ resp.status = 200 /\ resp.body.json
        /\ resp.body.kind = "object" /\ resp.body.beatsKey = "list"
        /\ \A k \in 1..Len(resp.body.items) :
              SatisfiesFilters(resp.body.items[k], filter_tests[loc.i])

C2_Witness ==
    /\ At("test_beats_store_filtering_and_search", "check")
    /\ loc.i = 6
    /\ beats_check(resp, filter_tests[loc.i]) = "none"
    /\ Len(resp.body.items) = 2
    /\ resp.body.items[1].price = 30 /\ resp.body.items[2].description.type = "str"

C2_WitnessEmpty ==
    /\ At("test_beats_store_filtering_and_search", "check")
    /\ beats_check(resp, filter_tests[loc.i]) = "none"
    /\ resp.body.items = <<>>

\* C7: while the favorites script has not failed, each add was answered 201
\* with an id, the list fetched after the add holds an entry whose beatId is
\* the added beat, the DELETE of the created id was answered 200 or 204, and
\* the list fetched after the delete holds no entry with the deleted id;
\* for favorites and for the wishlist alike.
Last == log[Len(log)]
LastWas(method, path, statuses) ==
    /\ Len(log) >= 2
    /\ Last.method = method /\ Last.path = path /\ Last.status \in statuses
PreviousWas(method, path) ==
    log[Len(log) - 1].method = method /\ log[Len(log) - 1].path = path
HoldsBeat(r, beat_id) ==
    r.body.json /\ \E k \in 1..Len(r.body.items) : r.body.items[k].beatId = beat_id
HoldsNoId(r, id) ==
    r.body.json /\ ~\E k \in 1..Len(r.body.items) : r.body.items[k].id = id

C7_FavoritesLifecycle ==
    (script = "test_favorites_wishlist_management" /\ raised = "none") =>
        /\ pc = "fav_list" =>
              /\ LastWas("POST", "/api/favorites", {201}) /\ Last.payload = loc.beat_id
              /\ loc.created_favorite_id \in Ids /\ resp.body.id = loc.created_favorite_id
        /\ pc = "wish_add" =>
              /\ LastWas("GET", "/api/favorites", {200}) /\ PreviousWas("POST", "/api/favorites")
              /\ HoldsBeat(resp, loc.beat_id)
        /\ pc = "wish_list" =>
              /\ LastWas("POST", "/api/wishlist", {201}) /\ Last.payload = loc.beat_id
              /\ loc.created_wishlist_id \in Ids /\ resp.body.id = loc.created_wishlist_id
        /\ pc = "recent" =>
              /\ LastWas("GET", "/api/wishlist", {200}) /\ PreviousWas("POST", "/api/wishlist")
              /\ HoldsBeat(resp, loc.beat_id)
        /\ pc = "fav_list_after" =>
              /\ LastWas("DELETE", "/api/favorites/{id}", {200, 204})
              /\ Last.id = loc.created_favorite_id
        /\ pc = "wish_del" =>
              /\ LastWas("GET", "/api/favorites", {200}) /\ PreviousWas("DELETE", "/api/favorites/{id}")
              /\ HoldsNoId(resp, loc.created_favorite_id)
        /\ pc = "wish_list_after" =>
              /\ LastWas("DELETE", "/api/wishlist/{id}", {200, 204})
              /\ Last.id = loc.created_wishlist_id
        /\ pc = "finally" =>
              /\ LastWas("GET", "/api/wishlist", {200}) /\ PreviousWas("DELETE", "/api/wishlist/{id}")
              /\ HoldsNoId(resp, loc.created_wishlist_id)

C7_Witness ==
    /\ At("test_favorites_wishlist_management", "finally")
    /\ raised = "none"
    /\ Len(log) = 10
    /\ Len(resp.body.items) = 2

\* C8: an answer to GET /api/beats of the shape 200 {beats: [...]} is
\* accepted by the beats script (when its beats meet the filters) and by
\* step 1 of the favorites script (when its first beat has an id).
BeatsObject(r) ==
    /\ r.exc = "none" /\ r.status = 200
    /\ r.body.json /\ r.body.kind = "object" /\ r.body.beatsKey = "list"

C8_BeatsShapeAcceptedByAll ==
    /\ ( /\ At("test_beats_store_filtering_and_search", "check")
         /\ BeatsObject(resp)
         /\ \A k \in 1..Len(resp.body.items) :
               SatisfiesFilters(resp.body.items[k], filter_tests[loc.i]) )
          => beats_check(resp, filter_tests[loc.i]) = "none"
    /\ ( /\ script = "test_favorites_wishlist_management"
         /\ Len(log) = 1 /\ log[1].path = "/api/beats"
         /\ BeatsObject(resp)
         /\ Len(resp.body.items) > 0 /\ resp.body.items[1].id \in Ids )
          => raised = "none"

\* C10: a step of a finally block leaves the verdict as the try body left it:
\* whatever the cleanup call meets (a connection error, a timeout, an error
\* status, a variable the body never bound), `raised` after the step is
\* `raised` before it, in every script.
FinallyLabels == {"finally", "guest_finally", "auth_finally"}

---------------------------------------------------------------------------
(* The scripts that talk HTTP, and what a run has detected so far.         *)

HttpScripts == (Scripts \ BrowserScripts) \ {"fix-home"}

\* The scripts that keep a list of step results instead of raising.
RecordsResults ==
    script \in {"test_error_handling_and_monitoring_report",
                "test_user_dashboard_analytics_and_downloads"}

RecordedFail == RecordsResults /\ \E k \in 1..Len(loc.results) : loc.results[k].result = "FAIL"

\* C11, as stated: in every HTTP script the first unexpected status code,
\* missing field or exception aborts the run: once a step has failed, by
\* raising or by being recorded as FAIL, the only steps that still run are
\* the cleanup steps of finally blocks.
C11_FirstFailureAborts ==
    [][(script \in HttpScripts /\ (raised # "none" \/ RecordedFail))
          => (pc \in FinallyLabels)]_vars

\* C11, amended: in every HTTP script an exception raised by a test step
\* aborts the run (afterwards only cleanup steps of finally blocks run, and
\* the run stays failed), and a failure that the error-monitoring script or
\* a section validation of the dashboard script records as FAIL lets the
\* later steps run but still makes the script end in failure.
C11_RaisedAbortsRecordedFails ==
    /\ [][(script \in HttpScripts /\ raised # "none")
             => (pc \in FinallyLabels /\ raised' # "none")]_vars
    /\ [](script \in HttpScripts /\ pc = "done" /\ RecordedFail => raised # "none")

C11_Witness ==
    /\ script = "test_get_order_by_id_authorization_and_existence"
    /\ pc = "finally"
    /\ raised = "AssertionError"
    /\ Len(log) >= 2

C11_WitnessRecorded ==
    /\ Done("test_error_handling_and_monitoring_report")
    /\ loc.results[1].result = "FAIL"
    /\ loc.results[2].result = "PASS"


\* The exceptions of requests that a failed call or raise_for_status raises.
RequestFailures == {"ConnectionError", "Timeout", "HTTPError"}

\* The scripts that turn every exception of their body into an assertion
\* error, and those that catch at least the exceptions of requests.
AssertionOnly ==
    {"test_error_handling_and_monitoring_report",
     "test_get_available_reservation_services_public_access",
     "test_handle_payment_webhook_signature_validation",
     "test_subscription_plans_and_billing_integration"}

CatchesRequestFailures ==
    AssertionOnly \cup CatchesRequestException \cup
    {"test_beats_store_filtering_and_search",
     "test_user_dashboard_analytics_and_downloads"}

TeardownLabels == {"close_context", "close_browser", "stop_pw"}

Created(path, id) == [path |-> path, id |-> id]

CreatedEntities ==
    {c \in CASE script = "test_create_order_with_idempotency_support" ->
                  {Created("/api/orders/{id}", idem_cleanup_id)}
             [] script = "test_get_order_by_id_authorization_and_existence" ->
                  {Created("/api/orders/{id}", loc.order_id)}
             [] script = "test_get_order_invoice_url_availability" ->
                  {Created("/api/orders/{id}", loc.order_id)}
             [] script = "test_favorites_wishlist_management" ->
                  {Created("/api/favorites/{id}", loc.created_favorite_id),
                   Created("/api/wishlist/{id}", loc.created_wishlist_id)}
             [] OTHER -> {}
       : Truthy(c.id)}

DeleteAttempted(c) ==
    \E k \in 1..Len(log) : log[k].method = "DELETE" /\ log[k].path = c.path /\ log[k].id = c.id

C14_WitnessInvoice ==
    /\ Done("test_get_order_invoice_url_availability")
    /\ CreatedEntities # {}


\* The calls of run_test's finally block, and those among the calls made.
TeardownCalls == {"context.close", "browser.close", "pw.stop"}

TeardownMade == SelectSeq(loc.calls, LAMBDA c : c.call \in TeardownCalls)

\* The start-up call returned, so its resource exists.
Started(call) == \E k \in 1..Len(loc.calls) : loc.calls[k] = Called(call, "none")

\* C15: a browser script opens one browser context, and when run_test ends,
\* after a normal completion or an exception at any step, start-up
\* included, and no teardown call has raised, its finally block has called
\* context.close(), browser.close() and pw.stop(), in that order, each once
\* and only for a resource that was created.
C15_TeardownOfCreated ==
    script \in BrowserScripts =>
        /\ Cardinality({k \in 1..Len(loc.calls) : loc.calls[k].call = "browser.new_context"}) <= 1
        /\ pc \notin TeardownLabels \cup {"done"} => TeardownMade = <<>>
        /\ (pc = "done" /\ \A k \in 1..Len(TeardownMade) : TeardownMade[k].exc = "none") =>
              TeardownMade =
                 (IF Started("browser.new_context") THEN <<Called("context.close", "none")>> ELSE <<>>)
                 \o (IF Started("pw.chromium.launch") THEN <<Called("browser.close", "none")>> ELSE <<>>)
                 \o (IF Started("async_playwright().start") THEN <<Called("pw.stop", "none")>> ELSE <<>>)

C15_Witness ==
    /\ script \in BrowserScripts /\ pc = "done"
    /\ raised = "Error"
    /\ Started("pw.chromium.launch") /\ ~Started("browser.new_context")
    /\ TeardownMade = <<Called("browser.close", "none"), Called("pw.stop", "none")>>


\* A piece of the file that is an occurrence of the old block: at most two
\* dollar signs before the price, and white space before every line.
IsOccurrence(seg) == seg.kind = "old" /\ seg.dollars <= 2 /\ seg.indent # <<>>

\* The file with every occurrence replaced by the new expression, written
\* with line separator `sep`, and every other piece as it was.
Replaced(segs, eol, sep) ==
    Flatten([k \in 1..Len(segs) |->
        IF IsOccurrence(segs[k]) THEN write_text(new_code, sep) ELSE segment_text(segs[k], eol)])

\* C16: when a run of fix-home.py has written the file, every occurrence of
\* the old block is replaced by the new expression and all other text of
\* the file is unchanged; a file without an occurrence is written back
\* with identical content.
C16_ReplacesOnlyOccurrences ==
    (script = "fix-home" /\ pc = "print" /\ loc.run = 1) =>
        loc.file = Replaced(loc.segments, loc.eol, loc.linesep)

\* What holds of the text in memory, where every line ends in \n: re.sub
\* replaces the occurrences and nothing else.
FixHome_SubstitutionInMemory ==
    (script = "fix-home" /\ pc = "write" /\ loc.run = 1) =>
        loc.content = Replaced(loc.segments, <<"nl">>, <<"nl">>)

FixHome_Witness ==
    /\ script = "fix-home" /\ pc = "write" /\ loc.run = 1
    /\ Len(loc.segments) = 2
    /\ IsOccurrence(loc.segments[1]) /\ loc.segments[2].kind = "old" /\ ~IsOccurrence(loc.segments[2])


C17_WitnessPass ==
    /\ Passed("test_error_handling_and_monitoring_report")
    /\ Len(loc.files) = 2


\* C18: test_user_dashboard_analytics_and_downloads passes exactly when a
\* token is obtained and all four sections are fetched as JSON and
\* validate; a section whose validation fails does not keep the remaining
\* sections from being fetched and validated, so a run that ends after a
\* decoded answer has a result for all four sections; a fetch or decoding
\* failure ends the run at once.
C18_DashboardVerdict ==
    (script = "test_user_dashboard_analytics_and_downloads" /\ pc = "done") =>
        /\ raised = "none" <=>
              /\ Len(loc.results) = Len(endpoints)
              /\ \A k \in 1..Len(loc.results) : loc.results[k].result = "PASS"
        /\ (Len(log) >= 2 /\ dashboard_fetch(resp) = "none") =>
              Len(loc.results) = Len(endpoints)
        /\ (Len(log) >= 2 /\ dashboard_fetch(resp) # "none") =>
              (raised = "AssertionError" /\ Len(loc.results) = Len(log) - 2)


\* C19: in the XSS script the value that the assertion of line 74 checks is
\* the value of the search input into which the payload was filled: the
\* locator whose input_value() is read is the locator that was filled.
C19_AssertsOnFilledInput ==
    (script = "TC015_Security___Cross_Site_Scripting_XSS_Prevention" /\ loc.read # 0) =>
        loc.read = loc.filled


\* C20: the audio script requires the playback state to survive
\* navigation: a run passes only if, after play, volume 0.75 and seek 30
\* were acknowledged and the state was read back, a navigation away and one
\* back were answered 200 and GET /api/audio-player/state then reported
\* playing = true and a position and a volume within 1 and 0.01 of those
\* read before the navigation (positions in tenths, volumes in thousandths).
C20_StateSurvivesNavigation ==
    Passed("test_audio_player_waveform_playback_controls") =>
        /\ Len(log) = 10
        /\ log[6].path = "/api/audio-player/state" /\ log[6].status = 200
        /\ log[7].payload = "/some/other/page" /\ log[7].status = 200
        /\ log[8].payload = "/audio-player" /\ log[8].status = 200
        /\ log[9].path = "/api/audio-player/state" /\ log[9].status = 200
        /\ loc.saved_state.playing = "true"
        /\ abs(loc.saved_state.position - audio_sent.position) < 10
        /\ abs(loc.saved_state.volume - audio_sent.volume) < 10
        /\ resp.body.playing = "true"
        /\ abs(resp.body.position - loc.saved_state.position) < 10
        /\ abs(resp.body.volume - loc.saved_state.volume) < 10

C20_Witness ==
    /\ Passed("test_audio_player_waveform_playback_controls")
    /\ loc.saved_state.position = 291
    /\ resp.body.position = 300
    /\ resp.body.volume = loc.saved_state.volume

---------------------------------------------------------------------------
(* The cleanup of the booking script.                                      *)

\* The ids of the DELETE requests sent so far, in the order sent.
RECURSIVE DeletedIds(_)
DeletedIds(n) ==
    IF n = 0 THEN <<>>
    ELSE IF log[n].method = "DELETE" THEN Append(DeletedIds(n - 1), log[n].id)
    ELSE DeletedIds(n - 1)

\* C21: in test_service_booking_system_functionality the DELETE requests
\* sent are, at every moment, those of the first ids of created_booking_ids,
\* one request per id and in the order the ids were appended; when the run
\* ends, passed or failed, and whatever the earlier deletions met, every
\* appended id has had its request.
C21_EveryBookingDeletedOnce ==
    script = "test_service_booking_system_functionality" =>
        /\ Len(DeletedIds(Len(log))) <= Len(loc.created_booking_ids)
        /\ DeletedIds(Len(log)) = SubSeq(loc.created_booking_ids, 1, Len(DeletedIds(Len(log))))
        /\ pc = "done" => DeletedIds(Len(log)) = loc.created_booking_ids

\* A run that failed at its third booking after appending three ids: the
\* first deletion met a connection error, the second an error status, and
\* the third was still sent.
C21_Witness ==
    /\ Done("test_service_booking_system_functionality")
    /\ raised = "AssertionError"
    /\ Len(loc.created_booking_ids) = 3
    /\ Len(log) = 6
    /\ log[4].method = "DELETE" /\ log[4].exc = "ConnectionError"
    /\ log[5].method = "DELETE" /\ log[5].status = 500
    /\ log[6].method = "DELETE" /\ log[6].id = loc.created_booking_ids[3]


\* C22: a second run of fix-home.py on the file the first run wrote (on the
\* same platform) finds nothing to replace and writes the same content
\* back: the file after the second run is the file after the first.
C22_SecondRunChangesNothing ==
    (script = "fix-home" /\ Len(loc.written) = 2) =>
        /\ loc.written[2] = loc.written[1]
        /\ loc.content = read_text(loc.written[1])

\* Two runs on a file of two occurrences of the old block whose line endings
\* are not those of the platform.
C22_Witness ==
    /\ script = "fix-home" /\ Len(loc.written) = 2
    /\ Len(loc.segments) = 2
    /\ IsOccurrence(loc.segments[1]) /\ IsOccurrence(loc.segments[2])
    /\ loc.eol # loc.linesep
    /\ loc.written[1] # file_text(loc.segments, loc.eol)


\* C23: fix-home.py reads before it writes.  A run that finds no file ends
\* at once with FileNotFoundError, creates no file and prints nothing; a
\* read that fails in any way ends the run with its error, the file and the
\* output as they were; the file changes only at the write; and the message
\* is printed only when the write of the substituted text has completed.
C23_ReadsBeforeWrites ==
    [][script = "fix-home" =>
        /\ (pc = "read" /\ ~loc.exists)
              => (pc' = "done" /\ raised' = "FileNotFoundError")
        /\ (pc = "read" /\ raised' # "none")
              => (pc' = "done" /\ loc' = loc)
        /\ (~loc.exists) => (loc'.file = <<>> /\ loc'.out = <<>> /\ ~loc'.exists)
        /\ (loc'.file # loc.file) => pc = "write"
        /\ (loc'.out # loc.out)
              => (/\ pc = "print" /\ raised = "none"
                  /\ loc.content = re_sub(old_pattern, new_code, read_text(
                         IF loc.run = 1 THEN file_text(loc.segments, loc.eol)
                         ELSE loc.written[loc.run - 1]))
                  /\ loc.file = write_text(loc.content, loc.linesep)
                  /\ loc'.out = Append(loc.out, "Fixed home.tsx"))]_vars

\* The file exists and holds an occurrence of the old block, and reading it
\* failed: the run is over, the file is as it was and nothing was printed.
C23_Witness ==
    /\ Done("fix-home")
    /\ raised = "UnicodeDecodeError"
    /\ loc.run = 1 /\ loc.out = <<>>
    /\ Len(loc.segments) = 1 /\ IsOccurrence(loc.segments[1])
    /\ loc.file = file_text(loc.segments, loc.eol)


\* The steps of the monitoring script in the order of the source, each with
\* the names it may be recorded under.
MonitoringSteps ==
    <<{"unauthorized"}, {"server_error"}, {"authentication"},
      {"authorized", "skipped"}, {"notifications"}>>

\* How many steps are behind a run that is at `label`.
StepsBefore(label) ==
    CASE label = "unauthorized" -> 0
      [] label = "server_error" -> 1
      [] label = "authenticate" -> 2
      [] label = "authorized" -> 3
      [] label = "notifications" -> 4
      [] OTHER -> 5

\* C24: in test_error_handling_and_monitoring_report every step that is
\* behind has exactly one result, recorded in step order, whatever was
\* answered and whichever request raised; the fourth result is that of the
\* authorized access when a token was obtained and that of its skip when
\* not; and a report, when generated, is one of all five results.
C24_FiveResultsInOrder ==
    script = "test_error_handling_and_monitoring_report" =>
        /\ Len(loc.results) = StepsBefore(pc)
        /\ \A k \in 1..Len(loc.results) : loc.results[k].step \in MonitoringSteps[k]
        /\ Len(loc.results) >= 4 => (loc.results[4].step = "skipped" <=> ~Truthy(loc.token))
        /\ \A k \in 1..Len(loc.files) : loc.files[k].steps = 5

\* Every request of the run raised: five results, all FAIL, are recorded
\* when the reports are about to be generated.
C24_Witness ==
    /\ At("test_error_handling_and_monitoring_report", "md_report")
    /\ Len(log) = 4 /\ \A k \in 1..4 : log[k].exc # "none"
    /\ Len(loc.results) = 5 /\ \A k \in 1..5 : loc.results[k].result = "FAIL"
    /\ loc.results[4].step = "skipped"


\* The browser scripts whose body cannot run to its end, and the kinds of
\* step at which such a body is left.
NeverPassing ==
    {"TC008_Add_Beat_to_Cart_and_Cart_Persistence",
     "TC013_Responsive_Layout_Across_Devices",
     "TC006_Beat_Catalog_Filtering_and_Search_Operations",
     "TC017_Performance_Benchmark___Page_Load_and_Interaction"}

FinalAssertions == {"all_text_contents", "float", "check", "assert_true"}

\* C25: no run of the four scripts ends in a pass.  The body is left with
\* an exception, at a click, fill or navigation that failed, at the
\* reference to the unbound name `window`, or at `assert False`; no step of
\* the final assertions of TC006 and TC017 is ever executed; and a finished
\* run has raised.
C25_NeverPasses ==
    /\ [][(script \in NeverPassing /\ pc = "body" /\ pc' # "body")
             => /\ raised' # "none"
                /\ \/ /\ browser_body(script)[loc.i].op \in {"click", "fill", "goto"}
                      /\ raised' \in {"Error", "TimeoutError"}
                   \/ /\ browser_body(script)[loc.i].op = "wheel"
                      /\ browser_body(script)[loc.i].arg = "window"
                      /\ raised' = "NameError"
                   \/ /\ browser_body(script)[loc.i].op = "assert_false"
                      /\ raised' = "AssertionError"]_vars
    /\ [](script \in NeverPassing =>
             /\ \A k \in 1..(loc.i - 1) : browser_body(script)[k].op \notin FinalAssertions
             /\ pc = "done" => raised # "none")

\* TC017_Performance_Benchmark: every click before the first scroll
\* succeeded, the scroll raised NameError, and the run ended with it after
\* a teardown without errors.
C25_Witness ==
    /\ Done("TC017_Performance_Benchmark___Page_Load_and_Interaction")
    /\ raised = "NameError"
    /\ loc.i = 7
    /\ Len(loc.calls) = 6


\* The scripts that authenticate through POST /api/auth/login, and whether
\* each goes on after the answer r: by its own reading of the status, the
\* body and the token.
LoginScripts ==
    {"test_authentication_system_user_synchronization",
     "test_shopping_cart_and_checkout_flow",
     "test_internationalization_multilanguage_support",
     "test_subscription_plans_and_billing_integration",
     "test_error_handling_and_monitoring_report"}

login_accepts(s, r) ==
    CASE s = "test_authentication_system_user_synchronization" ->
            auth_sync_step("login", r, Null) = "none"
      [] s = "test_shopping_cart_and_checkout_flow" -> authenticate_clerk_user(r) = "none"
      [] s = "test_internationalization_multilanguage_support" -> i18n_step("login", r, "none") = "none"
      [] s = "test_subscription_plans_and_billing_integration" ->
            subscription_step("login", r, <<>>) = "none"
      [] s = "test_error_handling_and_monitoring_report" -> monitoring_success("authentication", r)

AcceptedByAll(r) == \A s \in LoginScripts : login_accepts(s, r)

\* The login answer is the last request of the run, and the run went on
\* after it (the monitoring script: recorded the step as passed).
AfterLogin ==
    /\ script \in LoginScripts
    /\ Len(log) > 0 /\ Last.method = "POST" /\ Last.path = "/api/auth/login"

LoginPassed ==
    IF script = "test_error_handling_and_monitoring_report"
    THEN loc.results[3].result = "PASS"
    ELSE raised = "none"

TokenKeys(b) ==
    {k \in {"token", "accessToken", "access_token"} :
        \/ k = "token" /\ b.token # Missing
        \/ k = "accessToken" /\ b.accessToken # Missing
        \/ k = "access_token" /\ b.access_token # Missing}

\* C26: whenever a script has received the answer to its login, it goes on
\* exactly when its own reading accepts the answer; the synchronization
\* script accepts only answers that have the key accessToken, the cart,
\* internationalization and monitoring scripts only answers whose token is
\* not empty; so an answer that all five scripts accept has both, and an
\* answer that carries a token under one key only is refused by one of
\* them.
C26_LoginKeysDisagree ==
    AfterLogin =>
        /\ LoginPassed <=> login_accepts(script, resp)
        /\ login_accepts("test_authentication_system_user_synchronization", resp)
              => resp.body.accessToken # Missing
        /\ \A s \in {"test_shopping_cart_and_checkout_flow",
                     "test_internationalization_multilanguage_support",
                     "test_error_handling_and_monitoring_report"} :
              login_accepts(s, resp) => Truthy(Get(resp.body.token))
        /\ AcceptedByAll(resp)
              => (resp.body.accessToken # Missing /\ Truthy(Get(resp.body.token)))
        /\ (resp.body.json /\ resp.body.kind = "object" /\ Cardinality(TokenKeys(resp.body)) = 1)
              => ~AcceptedByAll(resp)

\* The synchronization script received a login answer with both keys, one
\* that every script accepts, and goes on to its second request.
C26_Witness ==
    /\ At("test_authentication_system_user_synchronization", "user")
    /\ AfterLogin
    /\ AcceptedByAll(resp)
    /\ TokenKeys(resp.body) = {"token", "accessToken"}

\* The cart script received an answer that carries its token under the key
\* accessToken only, and failed at authentication.
C26_WitnessSingleKey ==
    /\ script = "test_shopping_cart_and_checkout_flow"
    /\ AfterLogin
    /\ resp.status = 200 /\ resp.body.json /\ resp.body.kind = "object"
    /\ TokenKeys(resp.body) = {"accessToken"}
    /\ raised = "RuntimeError"


\* How many DELETE requests the run has sent for `id` on `path`.
DeleteCount(path, id) ==
    Cardinality({k \in 1..Len(log) :
                    log[k].method = "DELETE" /\ log[k].path = path /\ log[k].id = id})

C28_TeardownChained ==
    /\ [][(script \in BrowserScripts /\ pc \in TeardownLabels
              /\ Len(loc'.calls) > Len(loc.calls)
              /\ loc'.calls[Len(loc'.calls)].exc # "none")
            => (pc' = "done" /\ raised' = loc'.calls[Len(loc'.calls)].exc)]_vars
    /\ [](script \in BrowserScripts =>
            /\ \A k \in 1..Len(TeardownMade) :
                  TeardownMade[k].exc # "none" => (k = Len(TeardownMade) /\ pc = "done")
            /\ \A k \in 1..Len(TeardownMade) :
                  /\ TeardownMade[k].call = "browser.close"
                        => \A j \in 1..(k - 1) : TeardownMade[j] = Called("context.close", "none")
                  /\ TeardownMade[k].call = "pw.stop"
                        => \A j \in 1..(k - 1) : TeardownMade[j].exc = "none")

\* TC017_Favorites_and_Wishlist_Synchronization failed at its second
\* expect, with an AssertionError; context.close() then raised, the run
\* ended with that Error, and the browser and Playwright were left running.
C28_Witness ==
    /\ Done("TC017_Favorites_and_Wishlist_Synchronization")
    /\ loc.i = 21
    /\ raised = "Error"
    /\ loc.browser /\ loc.pw
    /\ TeardownMade = <<Called("context.close", "Error")>>

=============================================================================
